---- MODULE Spec2Model ----
(***************************************************************************)
(* Profitability and arbitrage engine of ALBION-MARKET-GOD:                *)
(*   src/src/refining_calculator.py   RefiningCalculator                   *)
(*   src/src/crafting_calculator.py   CraftingCalculator                   *)
(*   src/src/config.py                AlbionConfig                         *)
(*   src/src/arbitrage_analyzer.py    ArbitrageAnalyzer                    *)
(*                                                                         *)
(* Numbers.  The Python code computes with floats; the model computes the  *)
(* same expressions exactly.  A rate is a fraction [num, den].  A refining *)
(* amount is a mixed number [w, f, D] standing for w + f/D with 0 <= f < D *)
(* and D = 2000 * den of the call's return rate, which represents every    *)
(* amount of one call exactly and keeps every intermediate product inside  *)
(* the 32-bit integers of the model checker.  A crafting amount is an      *)
(* integer count of 1/CraftScale silver.                                   *)
(*                                                                         *)
(* A Python call either returns a value or raises: Returned(v), Raised(e). *)
(***************************************************************************)
EXTENDS Integers, Sequences, FiniteSets, TLC

VARIABLES cfg, call, price_data, tier, resource_type, analysis,
          cache, cache_timestamps, clock, executed

vars == <<cfg, call, price_data, tier, resource_type, analysis, cache, cache_timestamps, clock, executed>>

\* the price-fetch cache of the data collector and the time it reads
cache_vars == <<cache, cache_timestamps, clock, executed>>

\* PerformanceOptimizer(): both maps empty; no wrapped function has been called
CacheIdle ==
    /\ cache = << >>
    /\ cache_timestamps = << >>
    /\ clock = 0
    /\ executed = FALSE

None == "None"

Returned(v) == [status |-> "returned", value |-> v]

Raised(e) == [status |-> "raised", error |-> e]

Pending == [status |-> "pending"]

(***************************************************************************)
(* Exact arithmetic on mixed numbers w + f/D.                              *)
(***************************************************************************)
QInt(i, D) == [w |-> i, f |-> 0, D |-> D]

\* n/d for n >= 0 and d a divisor of D
QFrac(n, d, D) == [w |-> n \div d, f |-> (n % d) * (D \div d), D |-> D]

QAdd(a, b) == [w |-> a.w + b.w + ((a.f + b.f) \div a.D), f |-> (a.f + b.f) % a.D, D |-> a.D]

QSub(a, b) == [w |-> a.w - b.w + ((a.f - b.f) \div a.D), f |-> (a.f - b.f) % a.D, D |-> a.D]

QIsZero(a) == a.w = 0 /\ a.f = 0

QPositive(a) == a.w > 0 \/ (a.w = 0 /\ a.f > 0)

RECURSIVE FracLess(_, _, _, _)
\* a/b < c/d for 0 <= a < b and 0 <= c < d, by comparing the quotients of the
\* reciprocals (no product of two denominators is formed)
FracLess(a, b, c, d) ==
    IF c = 0 THEN FALSE
    ELSE IF a = 0 THEN TRUE
    ELSE IF (d \div c) # (b \div a) THEN (d \div c) < (b \div a)
    ELSE FracLess(d % c, c, b % a, a)

\* a < b, for amounts that may have different denominators
QLess(a, b) == a.w < b.w \/ (a.w = b.w /\ FracLess(a.f, a.D, b.f, b.D))

\* a percentage num/den*100, kept as the pair of amounts it is the quotient of
Percent(num, den) == [num |-> num, den |-> den]

(***************************************************************************)
(* REFINING_DATA, src/src/refining_calculator.py:35-164                    *)
(***************************************************************************)
\* key order of REFINING_DATA['local_production_bonus']
RefiningCities == <<"Fort Sterling", "Lymhurst", "Bridgewatch", "Martlock", "Thetford", "Caerleon", "Brecilien">>

\* REFINING_DATA['local_production_bonus'][city].get(resource_type, 0), in hundredths
local_production_bonus(city, rt) ==
    IF \/ (city = "Fort Sterling" /\ rt = "WOOD")
       \/ (city = "Lymhurst" /\ rt = "FIBER")
       \/ (city = "Bridgewatch" /\ rt \in {"STONE", "ROCK"})
       \/ (city = "Martlock" /\ rt = "HIDE")
       \/ (city = "Thetford" /\ rt = "ORE")
    THEN 40 ELSE 0

\* REFINING_DATA['tax_rates'].get(city, 0.05), in 1/200
tax_rates(city) ==
    CASE city \in {"Thetford", "Fort Sterling", "Lymhurst", "Bridgewatch", "Martlock"} -> 9
      [] city = "Caerleon" -> 7
      [] city = "Brecilien" -> 4
      [] OTHER -> 10

\* REFINING_DATA['base_focus_cost'].get(tier, 10)
base_focus_cost(t) ==
    CASE t = "T4" -> 10 [] t = "T5" -> 20 [] t = "T6" -> 40
      [] t = "T7" -> 80 [] t = "T8" -> 160 [] OTHER -> 10

\* REFINING_DATA['resource_requirements'].get(tier, {'raw': 2, 'refined_prev': 1})
resource_requirements(t) ==
    CASE t = "T4" -> [raw |-> 2, refined_prev |-> 1]
      [] t = "T5" -> [raw |-> 3, refined_prev |-> 1]
      [] t = "T6" -> [raw |-> 4, refined_prev |-> 1]
      [] t = "T7" -> [raw |-> 5, refined_prev |-> 1]
      [] t = "T8" -> [raw |-> 6, refined_prev |-> 1]
      [] OTHER -> [raw |-> 2, refined_prev |-> 1]

\* REFINING_DATA['resource_type_mapping'].get(resource_type, resource_type)
normalize_resource_type(rt) == IF rt = "STONE" THEN "ROCK" ELSE rt

\* REFINING_DATA['item_values'].get(tier + "_REFINED", 0)
item_values_refined(t) ==
    CASE t = "T4" -> 72 [] t = "T5" -> 192 [] t = "T6" -> 480
      [] t = "T7" -> 1152 [] t = "T8" -> 2688 [] OTHER -> 0

\* base_refining_bonus 0.18 and focus_bonus 0.45, in hundredths
base_refining_bonus == 18

focus_bonus == 45

(***************************************************************************)
(* RefiningCalculator                                                      *)
(***************************************************************************)
RECURSIVE OptimalCityScan(_, _, _, _)
\* the loop of get_optimal_refining_city over the cities from index i on
OptimalCityScan(i, rt, optimal_city, max_bonus) ==
    IF i > Len(RefiningCities) THEN optimal_city
    ELSE LET city == RefiningCities[i]
             bonus == local_production_bonus(city, rt)
         IN IF bonus > max_bonus
            THEN OptimalCityScan(i + 1, rt, city, bonus)
            ELSE OptimalCityScan(i + 1, rt, optimal_city, max_bonus)

\* get_optimal_refining_city comparing each city's best bonus over all resource
\* types instead of its bonus for the resource type asked for
RECURSIVE OptimalCityScanAnyResource(_, _, _, _)
OptimalCityScanAnyResource(i, rt, optimal_city, max_bonus) ==
    IF i > Len(RefiningCities) THEN optimal_city
    ELSE LET city == RefiningCities[i]
             bonus == IF \E r \in {"WOOD", "FIBER", "ROCK", "HIDE", "ORE"} : local_production_bonus(city, r) > 0
                      THEN 40 ELSE 0
         IN IF bonus > max_bonus
            THEN OptimalCityScanAnyResource(i + 1, rt, city, bonus)
            ELSE OptimalCityScanAnyResource(i + 1, rt, optimal_city, max_bonus)

get_optimal_refining_city_any_resource(rt) ==
    LET optimal_city == OptimalCityScanAnyResource(1, rt, None, 0)
    IN IF optimal_city # None THEN optimal_city ELSE "Caerleon"

get_optimal_refining_city(rt) ==
    LET optimal_city == OptimalCityScan(1, rt, None, 0)
    IN IF optimal_city # None THEN optimal_city ELSE "Caerleon"

\* the table local to get_local_production_bonus: Bridgewatch lists ROCK only
get_local_production_bonus(city, rt) ==
    IF \/ (city = "Fort Sterling" /\ rt = "WOOD")
       \/ (city = "Lymhurst" /\ rt = "FIBER")
       \/ (city = "Bridgewatch" /\ rt = "ROCK")
       \/ (city = "Martlock" /\ rt = "HIDE")
       \/ (city = "Thetford" /\ rt = "ORE")
    THEN 40 ELSE 0

\* calculate_return_rate returning 1/(1 + total_bonus), the share that is not returned
calculate_return_rate_complement(city, rt, use_focus, personal_island) ==
    LET total_bonus == base_refining_bonus
                       + (IF ~personal_island THEN get_local_production_bonus(city, rt) ELSE 0)
                       + (IF use_focus THEN focus_bonus ELSE 0)
    IN [num |-> 100, den |-> 100 + total_bonus]

\* rrr = 1 - 1/(1 + total_bonus) = total_bonus/(1 + total_bonus)
calculate_return_rate(city, rt, use_focus, personal_island) ==
    LET total_bonus == base_refining_bonus
                       + (IF ~personal_island THEN get_local_production_bonus(city, rt) ELSE 0)
                       + (IF use_focus THEN focus_bonus ELSE 0)
    IN [num |-> total_bonus, den |-> 100 + total_bonus]

\* spec_reduction = 1 - (specialization / 100 * 0.5) is a double: for these
\* levels it is below (200 - specialization)/200 by num/den of the relative
\* spacing 2^-53, for the others it is exact, above, or below by at most half
\* of the spacing, which no product with an integer shows
spec_reduction_shortfall(specialization) ==
    CASE specialization = 12 -> [num |-> 24, den |-> 47]
      [] specialization = 14 -> [num |-> 56, den |-> 93]
      [] specialization = 37 -> [num |-> 96, den |-> 163]
      [] specialization \in {39, 62, 85} -> [num |-> 16, den |-> 23]
      [] specialization = 60 -> [num |-> 4, den |-> 7]
      [] specialization = 64 -> [num |-> 14, den |-> 17]
      [] specialization = 66 -> [num |-> 64, den |-> 67]
      [] specialization = 68 -> [num |-> 12, den |-> 11]
      [] specialization = 83 -> [num |-> 64, den |-> 117]
      [] specialization = 87 -> [num |-> 96, den |-> 113]
      [] specialization = 89 -> [num |-> 112, den |-> 111]
      [] specialization = 91 -> [num |-> 128, den |-> 109]
      [] specialization = 93 -> [num |-> 144, den |-> 107]
      [] OTHER -> [num |-> 0, den |-> 1]

RECURSIVE Pow2Floor(_)
\* the largest power of two that is <= n, for n >= 1
Pow2Floor(n) == IF n < 2 THEN 1 ELSE 2 * Pow2Floor(n \div 2)

\* base_cost * quantity * spec_reduction, whose real value is the integer m,
\* is a double below m: the shortfall of spec_reduction exceeds half the
\* spacing of the doubles below m (a tie rounds to m)
ProductRoundsBelow(m, specialization) ==
    LET short == spec_reduction_shortfall(specialization)
    IN /\ m >= 1
       /\ IF m = Pow2Floor(m) THEN 2 * short.num > short.den
          ELSE m * short.num > short.den * Pow2Floor(m)

\* max(1, int(base_cost * quantity * spec_reduction * premium_reduction)) in
\* doubles: int() of a product that should be an integer and is a double
\* below it gives one less; premium_reduction is 0.5 or 1.0, an exact factor
calculate_focus_cost(t, quantity, specialization, premium) ==
    LET n == base_focus_cost(t) * quantity * (200 - specialization)
        d == 200 * (IF premium THEN 2 ELSE 1)
        total_cost == IF n % d = 0 /\ ProductRoundsBelow(n \div 200, specialization)
                      THEN (n \div d) - 1
                      ELSE n \div d
    IN IF total_cost > 1 THEN total_cost ELSE 1

\* the margin without its guard: net_profit / total_cost * 100 whatever total_cost is
refining_profit_margin_unguarded(net_profit, total_cost, D) == Percent(net_profit, total_cost)

\* (net_profit / total_cost) * 100 if total_cost > 0 else 0
refining_profit_margin(net_profit, total_cost, D) ==
    IF QPositive(total_cost) THEN Percent(net_profit, total_cost) ELSE Percent(QInt(0, D), QInt(1, D))

\* the tax without the nutrition multiplier: refined_quantity * item_value * tax_rate
refining_tax_cost_without_nutrition(refined_quantity, t, city, D) ==
    QFrac(refined_quantity * item_values_refined(t) * tax_rates(city), 200, D)

\* refined_quantity * item_value * nutrition_cost_multiplier (0.1125) * tax_rate:
\* item_value / 8 * 9 is item_value * 1.125 and tax_rates is in 1/200
refining_tax_cost(refined_quantity, t, city, D) ==
    QFrac(refined_quantity * (item_values_refined(t) \div 8) * 9 * tax_rates(city), 2000, D)

\* calculate_refining_profit for the raw price raw_price / price_den: the
\* bisection of calculate_break_even_price calls it between whole prices
calculate_refining_profit_at(t, rt, city, raw_price, price_den, refined_price, quantity, specialization, premium, use_focus, prev_refined_price) ==
    LET requirements == resource_requirements(t)
        raw_per_refined == requirements.raw
        prev_refined_per_refined == requirements.refined_prev
        refined_quantity == quantity \div raw_per_refined
    IN IF refined_quantity = 0
       \* RefiningResult(0, ..., 0, premium=, use_focus=) passes 14 of the 16
       \* required fields: output_value and input_cost are missing
       THEN Raised("TypeError")
       ELSE
       LET prev_refined_needed == refined_quantity * prev_refined_per_refined
           return_rate == calculate_return_rate(city, rt, use_focus, FALSE)
           D == 2000 * return_rate.den * price_den
           raw_material_cost == QFrac(quantity * raw_price, price_den, D)
           prev_refined_material_cost == prev_refined_needed * prev_refined_price
           input_cost == QAdd(raw_material_cost, QInt(prev_refined_material_cost, D))
           focus_cost == IF use_focus
                         THEN calculate_focus_cost(t, refined_quantity, specialization, premium)
                         ELSE 0
           tax_cost == refining_tax_cost(refined_quantity, t, city, D)
           total_cost == QAdd(input_cost, tax_cost)
           resources_returned_value ==
               QAdd(QFrac(quantity * return_rate.num * raw_price, return_rate.den * price_den, D),
                    QFrac(prev_refined_needed * return_rate.num * prev_refined_price,
                          return_rate.den, D))
           total_revenue == QAdd(QInt(refined_quantity * refined_price, D),
                                 resources_returned_value)
           net_profit == QSub(total_revenue, total_cost)
           profit_margin == refining_profit_margin(net_profit, total_cost, D)
       IN Returned([total_cost |-> total_cost,
                    total_revenue |-> total_revenue,
                    net_profit |-> net_profit,
                    profit_margin |-> profit_margin,
                    focus_cost |-> focus_cost,
                    tax_cost |-> tax_cost,
                    return_rate |-> return_rate,
                    resources_returned |-> (quantity * return_rate.num) \div return_rate.den,
                    refined_quantity |-> refined_quantity,
                    prev_refined_needed |-> prev_refined_needed,
                    raw_material_cost |-> raw_material_cost,
                    prev_refined_material_cost |-> prev_refined_material_cost,
                    output_value |-> total_revenue,
                    input_cost |-> input_cost,
                    premium |-> premium,
                    use_focus |-> use_focus])

calculate_refining_profit(t, rt, city, raw_price, refined_price, quantity, specialization, premium, use_focus, prev_refined_price) ==
    calculate_refining_profit_at(t, rt, city, raw_price, 1, refined_price, quantity, specialization, premium, use_focus, prev_refined_price)

(***************************************************************************)
(* Stable descending sort, as sorted(items, key=..., reverse=True): an     *)
(* element goes after every element whose key is >= its own.               *)
(***************************************************************************)
RECURSIVE InsertDesc(_, _, _)
InsertDesc(sorted, x, i) ==
    IF i > Len(sorted) THEN Append(sorted, x)
    ELSE IF QLess(sorted[i].key, x.key)
         THEN SubSeq(sorted, 1, i - 1) \o <<x>> \o SubSeq(sorted, i, Len(sorted))
         ELSE InsertDesc(sorted, x, i + 1)

RECURSIVE SortDescFrom(_, _, _)
SortDescFrom(items, i, sorted) ==
    IF i > Len(items) THEN sorted
    ELSE SortDescFrom(items, i + 1, InsertDesc(sorted, items[i], 1))

RECURSIVE InsertDescBeforeEqual(_, _, _)
InsertDescBeforeEqual(sorted, x, i) ==
    IF i > Len(sorted) THEN Append(sorted, x)
    ELSE IF ~QLess(x.key, sorted[i].key)
         THEN SubSeq(sorted, 1, i - 1) \o <<x>> \o SubSeq(sorted, i, Len(sorted))
         ELSE InsertDescBeforeEqual(sorted, x, i + 1)

RECURSIVE SortDescFromBeforeEqual(_, _, _)
SortDescFromBeforeEqual(items, i, sorted) ==
    IF i > Len(items) THEN sorted
    ELSE SortDescFromBeforeEqual(items, i + 1, InsertDescBeforeEqual(sorted, items[i], 1))

\* a descending sort that is not stable: an element goes before the elements
\* whose key equals its own
SortDescTiesReversed(items) ==
    LET s == SortDescFromBeforeEqual(items, 1, << >>)
    IN [i \in 1..Len(s) |-> s[i].item]

\* items: a sequence of [key |-> amount, item |-> ...]; the items in sorted order
SortDesc(items) ==
    LET s == SortDescFrom(items, 1, << >>)
    IN [i \in 1..Len(s) |-> s[i].item]

RECURSIVE RefiningCityResults(_, _, _, _, _, _, _, _, _)
\* the loop of find_best_refining_city over the cities from index i on
RefiningCityResults(i, t, rt, raw_price, refined_price, specialization, premium, use_focus, prev_refined_price) ==
    IF i > Len(RefiningCities) THEN << >>
    ELSE LET city == RefiningCities[i]
             result == calculate_refining_profit(t, rt, city, raw_price, refined_price, 100,
                                                 specialization, premium, use_focus,
                                                 prev_refined_price).value
             entry == [city |-> city,
                       profit |-> result.net_profit,
                       margin |-> result.profit_margin,
                       return_rate |-> result.return_rate,
                       tax_rate |-> tax_rates(city),
                       lpb |-> get_local_production_bonus(city, rt),
                       full_result |-> result]
         IN <<[key |-> entry.profit, item |-> entry]>>
            \o RefiningCityResults(i + 1, t, rt, raw_price, refined_price, specialization,
                                   premium, use_focus, prev_refined_price)

\* the ranking, first city first (the insertion order of the returned dict)
find_best_refining_city(t, rt, raw_price, refined_price, specialization, premium, use_focus, prev_refined_price) ==
    Returned(SortDesc(RefiningCityResults(1, t, rt, raw_price, refined_price, specialization,
                                          premium, use_focus, prev_refined_price)))

(***************************************************************************)
(* CraftingCalculator._load_crafting_data,                                 *)
(* src/src/crafting_calculator.py:31-151                                   *)
(***************************************************************************)
\* a crafting amount a stands for a / CraftScale silver
CraftScale == 1000 * 200

\* key order of data['tax_rates']
CraftingCities == <<"Caerleon", "Thetford", "Fort Sterling", "Lymhurst", "Bridgewatch", "Martlock", "Brecilien">>

\* data['base_return_rate'].get(tier, 0.15), in thousandths
crafting_base_return_rate(t) ==
    CASE t = "T4" -> 150 [] t = "T5" -> 200 [] t = "T6" -> 220
      [] t = "T7" -> 240 [] t = "T8" -> 260 [] OTHER -> 150

\* data['focus_per_craft'].get(tier, 10)
focus_per_craft(t) ==
    CASE t = "T4" -> 10 [] t = "T5" -> 20 [] t = "T6" -> 40
      [] t = "T7" -> 80 [] t = "T8" -> 160 [] OTHER -> 10

\* data['tax_rates'].get(city, 0.05), in 1/200
crafting_tax_rates(city) ==
    CASE city = "Caerleon" -> 7
      [] city \in {"Thetford", "Fort Sterling", "Lymhurst", "Bridgewatch", "Martlock", "Brecilien"} -> 9
      [] OTHER -> 10

\* crafting_city_bonuses granting the bonus of a city to every recipe crafted there
crafting_city_bonuses_any_category(city, bonus_type) ==
    IF city \in {"Thetford", "Fort Sterling", "Lymhurst", "Bridgewatch", "Martlock"}
    THEN 15 ELSE 0

\* data['city_bonuses'][city][bonus_type] when both keys exist, else 0; in hundredths
crafting_city_bonuses(city, bonus_type) ==
    IF \/ (city = "Thetford" /\ bonus_type \in {"FIBER", "CLOTH"})
       \/ (city = "Fort Sterling" /\ bonus_type \in {"ORE", "METAL"})
       \/ (city = "Lymhurst" /\ bonus_type = "WOOD")
       \/ (city = "Bridgewatch" /\ bonus_type \in {"HIDE", "LEATHER"})
       \/ (city = "Martlock" /\ bonus_type \in {"ROCK", "STONE"})
    THEN 15 ELSE 0

Mat(id, amount) == [id |-> id, amount |-> amount]

Sword(t, prev) == [materials |-> <<Mat(t \o "_METAL", 16), Mat(prev \o "_METAL", 8)>>,
                   category |-> "WEAPON", crafting_city_bonus |-> "METAL", tier |-> t]

Robe(t, prev) == [materials |-> <<Mat(t \o "_CLOTH", 16), Mat(prev \o "_CLOTH", 8)>>,
                  category |-> "ARMOR", crafting_city_bonus |-> "CLOTH", tier |-> t]

Bag(t) == [materials |-> <<Mat(t \o "_CLOTH", 8), Mat(t \o "_LEATHER", 4)>>,
           category |-> "ACCESSORY", crafting_city_bonus |-> "CLOTH", tier |-> t]

\* data['recipes']; tier is item_id.split('_')[0]
recipes ==
    [T4_SWORD |-> Sword("T4", "T3"), T5_SWORD |-> Sword("T5", "T4"),
     T6_SWORD |-> Sword("T6", "T5"), T7_SWORD |-> Sword("T7", "T6"),
     T8_SWORD |-> Sword("T8", "T7"),
     T4_ARMOR_CLOTH_ROBE |-> Robe("T4", "T3"), T5_ARMOR_CLOTH_ROBE |-> Robe("T5", "T4"),
     T6_ARMOR_CLOTH_ROBE |-> Robe("T6", "T5"),
     T4_BAG |-> Bag("T4"), T5_BAG |-> Bag("T5"), T6_BAG |-> Bag("T6")]

\* the search of calculate_break_even_price keeps its prices as multiples of
\* 1/PriceScale: eleven halvings of an interval with whole ends
PriceScale == 2^11

RECURSIVE BreakEvenSearch(_, _, _, _, _, _, _, _, _, _)
\* while high - low > tolerance (0.01): halve the interval, keeping the half
\* in which the net profit of 100 raw units changes sign
BreakEvenSearch(low, high, t, rt, city, refined_price, specialization, premium, use_focus, prev_refined_price) ==
    IF ~(100 * (high - low) > PriceScale) THEN low
    ELSE LET mid == (low + high) \div 2
             result == calculate_refining_profit_at(t, rt, city, mid, PriceScale, refined_price, 100, specialization, premium, use_focus, prev_refined_price).value
         IN IF QPositive(result.net_profit)
            THEN BreakEvenSearch(mid, high, t, rt, city, refined_price, specialization, premium, use_focus, prev_refined_price)
            ELSE BreakEvenSearch(low, mid, t, rt, city, refined_price, specialization, premium, use_focus, prev_refined_price)

\* low, high = 1.0, refined_price * 10; the price returned is num / den
calculate_break_even_price(t, rt, city, refined_price, specialization, premium, use_focus, prev_refined_price) ==
    [num |-> BreakEvenSearch(PriceScale, refined_price * 10 * PriceScale, t, rt, city, refined_price, specialization, premium, use_focus, prev_refined_price),
     den |-> PriceScale]

(***************************************************************************)
(* CraftingCalculator                                                      *)
(***************************************************************************)
\* crafting_calculate_return_rate without the cap at 0.70
crafting_calculate_return_rate_uncapped(t, specialization, premium, use_focus) ==
    crafting_base_return_rate(t) + specialization * 3 + (IF use_focus THEN 350 ELSE 0)

\* min(base_rate + specialization/100*0.30 + (0.35 if use_focus), 0.70), in thousandths
crafting_calculate_return_rate(t, specialization, premium, use_focus) ==
    LET return_rate == crafting_base_return_rate(t) + specialization * 3
                       + (IF use_focus THEN 350 ELSE 0)
    IN IF return_rate < 700 THEN return_rate ELSE 700

\* max(int(base_focus * (1 - specialization/100*0.50)), 1), 0 without focus
crafting_calculate_focus_cost(t, specialization, premium, use_focus) ==
    IF ~use_focus THEN 0
    ELSE LET focus_cost == (focus_per_craft(t) * (200 - specialization)) \div 200
         IN IF focus_cost > 1 THEN focus_cost ELSE 1

\* material_prices.get(material, 0)
MaterialPrice(material_prices, material) ==
    IF material \in DOMAIN material_prices THEN material_prices[material] ELSE 0

RECURSIVE SumCosts(_, _)
SumCosts(costs, i) == IF i > Len(costs) THEN 0 ELSE costs[i].cost + SumCosts(costs, i + 1)

calculate_crafting_profit(item_id, city, material_prices, item_sell_price, quantity, specialization, premium, use_focus) ==
    IF item_id \notin DOMAIN recipes
    THEN Raised("ValueError")
    ELSE
    LET recipe == recipes[item_id]
        t == recipe.tier
        return_rate == crafting_calculate_return_rate(t, specialization, premium, use_focus)
        focus_cost == crafting_calculate_focus_cost(t, specialization, premium, use_focus)
        city_bonus == crafting_city_bonuses(city, recipe.crafting_city_bonus)
        \* base_amount * (1 - city_bonus) * quantity * material_price
        material_costs ==
            [i \in 1..Len(recipe.materials) |->
                [id |-> recipe.materials[i].id,
                 cost |-> recipe.materials[i].amount * (100 - city_bonus) * quantity
                          * MaterialPrice(material_prices, recipe.materials[i].id)
                          * (CraftScale \div 100)]]
        total_material_cost == SumCosts(material_costs, 1)
        \* quantity * (1 + return_rate)
        items_produced == quantity * (1000 + return_rate) * (CraftScale \div 1000)
        total_revenue == quantity * (1000 + return_rate) * item_sell_price * (CraftScale \div 1000)
        tax_amount == quantity * (1000 + return_rate) * item_sell_price * crafting_tax_rates(city)
        gross_profit == total_revenue - total_material_cost
        net_profit == gross_profit - tax_amount
        total_cost == total_material_cost + tax_amount
        profit_margin == IF total_revenue > 0 THEN Percent(net_profit, total_revenue)
                         ELSE Percent(0, 1)
        break_even_price == IF items_produced > 0 THEN [num |-> total_cost, den |-> items_produced]
                            ELSE [num |-> 0, den |-> 1]
    IN Returned([net_profit |-> net_profit,
                 gross_profit |-> gross_profit,
                 total_cost |-> total_cost,
                 total_revenue |-> total_revenue,
                 profit_margin |-> profit_margin,
                 return_rate |-> return_rate,
                 focus_cost |-> focus_cost * quantity,
                 tax_amount |-> tax_amount,
                 material_costs |-> material_costs,
                 items_produced |-> items_produced,
                 break_even_price |-> break_even_price])

RECURSIVE CraftingCityResults(_, _, _, _, _, _, _, _)
\* the loop of find_best_crafting_city over the cities from index i on; a city
\* with no material prices or no sell price is skipped, and so is a city whose
\* calculation raises (except Exception: continue)
CraftingCityResults(i, item_id, material_prices_by_city, item_sell_prices_by_city, quantity, specialization, premium, use_focus) ==
    IF i > Len(CraftingCities) THEN << >>
    ELSE LET city == CraftingCities[i]
             material_prices == IF city \in DOMAIN material_prices_by_city
                                THEN material_prices_by_city[city] ELSE << >>
             sell_price == IF city \in DOMAIN item_sell_prices_by_city
                           THEN item_sell_prices_by_city[city] ELSE 0
             rest == CraftingCityResults(i + 1, item_id, material_prices_by_city,
                                         item_sell_prices_by_city, quantity, specialization,
                                         premium, use_focus)
         IN IF DOMAIN material_prices = {} \/ sell_price = 0 THEN rest
            ELSE LET r == calculate_crafting_profit(item_id, city, material_prices, sell_price,
                                                    quantity, specialization, premium, use_focus)
                 IN IF r.status = "raised" THEN rest
                    ELSE <<[key |-> QInt(r.value.net_profit, 1),
                            item |-> [city |-> city, result |-> r.value]]>> \o rest

find_best_crafting_city(item_id, material_prices_by_city, item_sell_prices_by_city, quantity, specialization, premium, use_focus) ==
    Returned(SortDesc(CraftingCityResults(1, item_id, material_prices_by_city,
                                          item_sell_prices_by_city, quantity, specialization,
                                          premium, use_focus)))

(***************************************************************************)
(* AlbionConfig, src/src/config.py                                         *)
(***************************************************************************)
\* key order of AlbionConfig.tax_rates
ConfigCities == <<"Thetford", "Fort Sterling", "Lymhurst", "Bridgewatch", "Martlock", "Caerleon", "Brecilien">>

\* the refining keys of the default specializations, all 0
DefaultSpecializations == [k \in {"ore_refining", "hide_refining", "fiber_refining", "wood_refining", "stone_refining"} |-> 0]

\* AlbionConfig(): the dataclass defaults
DefaultConfig == [premium |-> FALSE, use_focus |-> TRUE, exclude_brecilien |-> FALSE, exclude_caerleon |-> FALSE, specializations |-> DefaultSpecializations]

get_allowed_cities(config) ==
    SelectSeq(ConfigCities,
              LAMBDA city : /\ ~(config.exclude_brecilien /\ city = "Brecilien")
                            /\ ~(config.exclude_caerleon /\ city = "Caerleon"))

\* self.specializations.get(activity_type, 0)
get_specialization_level(config, activity_type) ==
    IF activity_type \in DOMAIN config.specializations THEN config.specializations[activity_type] ELSE 0

\* f"{resource_type.lower()}_refining"
SpecKey(rt) ==
    CASE rt = "ORE" -> "ore_refining" [] rt = "WOOD" -> "wood_refining"
      [] rt = "HIDE" -> "hide_refining" [] rt = "FIBER" -> "fiber_refining"
      [] rt = "STONE" -> "stone_refining" [] rt = "ROCK" -> "rock_refining"
      [] OTHER -> "other_refining"

Range(s) == {s[i] : i \in 1..Len(s)}

(***************************************************************************)
(* ArbitrageAnalyzer, src/src/arbitrage_analyzer.py                        *)
(*                                                                         *)
(* price_data is an ordered dict city -> {category -> quote}: a sequence   *)
(* of [city, data], data a function from the categories a city quotes to   *)
(* [buy_max, sell_min].  The item_id a quote carries is copied and never   *)
(* read by the analysis; it is left out.  A price dict (raw_prices, ...)   *)
(* is a sequence of [city, buy_price, sell_price] in insertion order.      *)
(***************************************************************************)
\* float('inf'): above every price
Inf == 1000000000

\* ArbitrageAnalyzer(config=config, calculator=calculator): both are attached
Analyzer == [config |-> TRUE, calculator |-> TRUE]

\* {}, the empty dict a missing recommendation or a skipped analysis is
EmptyDict == [empty |-> TRUE]

\* FilteredCities without the filter: every city of price_data is a candidate
FilteredCitiesUnfiltered(pd, config) == pd

\* the cities of price_data the analysis looks at
FilteredCities(pd, config) ==
    IF Analyzer.config
    THEN SelectSeq(pd, LAMBDA e : e.city \in Range(get_allowed_cities(config)))
    ELSE pd

PriceEntry(e, category) == [city |-> e.city, buy_price |-> e.data[category].buy_max, sell_price |-> e.data[category].sell_min]

\* raw and prev_refined are kept when buy_max > 0, refined when sell_min > 0
ExtractPrices(filtered, category) ==
    LET kept == SelectSeq(filtered,
                          LAMBDA e : /\ category \in DOMAIN e.data
                                     /\ IF category = "refined"
                                        THEN e.data[category].sell_min > 0
                                        ELSE e.data[category].buy_max > 0)
    IN [i \in 1..Len(kept) |-> PriceEntry(kept[i], category)]

RECURSIVE BestBuySellScan(_, _, _)
\* the loop of _find_best_buy_sell over prices from index i on;
\* best is [buy_city, buy_price, sell_city, sell_price]
BestBuySellScan(prices, i, best) ==
    IF i > Len(prices) THEN best
    ELSE LET p == prices[i]
             b1 == IF p.sell_price > 0 /\ p.sell_price < best.buy_price
                   THEN [best EXCEPT !.buy_price = p.sell_price, !.buy_city = p.city]
                   ELSE best
             b2 == IF p.buy_price > b1.sell_price
                   THEN [b1 EXCEPT !.sell_price = p.buy_price, !.sell_city = p.city]
                   ELSE b1
         IN BestBuySellScan(prices, i + 1, b2)

\* IsProfitable with the margin threshold included: profit_margin >= 5
IsProfitableFrom5(profit, best_buy_price) == profit > 0 /\ profit * 100 >= 5 * best_buy_price

\* profit > 0 and profit_margin > 5, profit_margin = profit / best_buy_price * 100
IsProfitable(profit, best_buy_price) == profit > 0 /\ profit * 100 > 5 * best_buy_price

_find_best_buy_sell(prices, item_type, t, rt) ==
    IF Len(prices) = 0 THEN EmptyDict
    ELSE
    LET best == BestBuySellScan(prices, 1, [buy_city |-> None, buy_price |-> Inf, sell_city |-> None, sell_price |-> 0])
        valid == best.buy_price < Inf /\ best.sell_price > 0
        profit == IF valid THEN best.sell_price - best.buy_price ELSE 0
        \* (profit / best_buy_price) * 100 if best_buy_price > 0 else 0
        profit_margin == IF valid /\ best.buy_price > 0
                         THEN [num |-> profit * 100, den |-> best.buy_price]
                         ELSE [num |-> 0, den |-> 1]
    IN [empty |-> FALSE,
        item_type |-> item_type,
        tier |-> t,
        resource_type |-> rt,
        buy_recommendation |-> [city |-> best.buy_city,
                                price |-> IF best.buy_price < Inf THEN best.buy_price ELSE 0],
        sell_recommendation |-> [city |-> best.sell_city, price |-> best.sell_price],
        arbitrage_profit |-> [profit_per_unit |-> profit,
                              profit_margin_percent |-> profit_margin,
                              is_profitable |-> IsProfitable(profit, IF valid THEN best.buy_price ELSE 1)]]

RECURSIVE MinSellScan(_, _, _)
\* min(prices, key = sell_price if sell_price > 0 else inf): the index of the
\* first entry with the least key, from index i on with the best so far at b
MinSellScan(prices, i, b) ==
    IF i > Len(prices) THEN b
    ELSE LET key(j) == IF prices[j].sell_price > 0 THEN prices[j].sell_price ELSE Inf
         IN MinSellScan(prices, i + 1, IF key(i) < key(b) THEN i ELSE b)

RECURSIVE RefiningOpportunities(_, _, _, _, _, _, _, _)
\* the loop of _analyze_refining_arbitrage over refined_prices from index i on
RefiningOpportunities(refined_prices, i, raw, prev, optimal_refining_city, config, t, rt) ==
    IF i > Len(refined_prices) THEN << >>
    ELSE
    LET sell_city == refined_prices[i].city
        refined_sell_price == refined_prices[i].buy_price
        rest == RefiningOpportunities(refined_prices, i + 1, raw, prev, optimal_refining_city, config, t, rt)
    IN IF ~(raw.price > 0 /\ refined_sell_price > 0) THEN rest
       ELSE
       LET profit_result == calculate_refining_profit(t, rt, optimal_refining_city, raw.price, refined_sell_price, 100, get_specialization_level(config, SpecKey(rt)), config.premium, config.use_focus, prev.price).value
       IN IF ~QPositive(profit_result.net_profit) THEN rest
          ELSE <<[key |-> profit_result.net_profit,
                  item |-> [raw_city |-> raw.city,
                            refined_city |-> sell_city,
                            refine_city |-> optimal_refining_city,
                            raw_price |-> raw.price,
                            refined_price |-> refined_sell_price,
                            estimated_profit |-> profit_result.net_profit,
                            profit_margin |-> profit_result.profit_margin,
                            strategy |-> [buy_raw |-> raw.city, buy_prev |-> prev.city,
                                          refine |-> optimal_refining_city, sell |-> sell_city]]]>>
               \o rest

_analyze_refining_arbitrage(raw_prices, prev_refined_prices, refined_prices, config, t, rt) ==
    IF ~(Analyzer.calculator /\ Len(raw_prices) > 0 /\ Len(refined_prices) > 0 /\ Analyzer.config)
    THEN EmptyDict
    ELSE
    LET best_raw == raw_prices[MinSellScan(raw_prices, 1, 1)]
        raw == [city |-> best_raw.city, price |-> best_raw.sell_price]
        prev == IF Len(prev_refined_prices) > 0
                THEN LET best_prev == prev_refined_prices[MinSellScan(prev_refined_prices, 1, 1)]
                     IN [city |-> best_prev.city, price |-> best_prev.sell_price]
                ELSE [city |-> None, price |-> 0]
        optimal_refining_city == get_optimal_refining_city(rt)
        opportunities == SortDesc(RefiningOpportunities(refined_prices, 1, raw, prev, optimal_refining_city, config, t, rt))
    IN [empty |-> FALSE,
        best_opportunities |-> SubSeq(opportunities, 1, IF Len(opportunities) < 5 THEN Len(opportunities) ELSE 5),
        total_opportunities |-> Len(opportunities)]

analyze_opportunities(pd, config, t, rt) ==
    LET filtered_cities == FilteredCities(pd, config)
        raw_prices == ExtractPrices(filtered_cities, "raw")
        prev_refined_prices == ExtractPrices(filtered_cities, "prev_refined")
        refined_prices == ExtractPrices(filtered_cities, "refined")
    IN [raw_recommendations |-> _find_best_buy_sell(raw_prices, "raw", t, rt),
        prev_refined_recommendations |-> _find_best_buy_sell(prev_refined_prices, "prev_refined", t, rt),
        refined_recommendations |-> _find_best_buy_sell(refined_prices, "refined", t, rt),
        refining_opportunities |-> _analyze_refining_arbitrage(raw_prices, prev_refined_prices, refined_prices, config, t, rt)]

(***************************************************************************)
(* ActionPlanner, src/src/action_planner.py                                *)
(*                                                                         *)
(* A text the planner formats is modelled by its class and the figures it  *)
(* carries: f"{x:,.0f}" is x rounded to an integer.                        *)
(***************************************************************************)
\* n times the amount a
QTimes(a, n) == [w |-> a.w * n + ((a.f * n) \div a.D), f |-> (a.f * n) % a.D, D |-> a.D]

\* the amount a divided by the integer n > 0
QDivInt(a, n) == [w |-> a.w \div n, f |-> (a.w % n) * a.D + a.f, D |-> n * a.D]

\* abs(a)
QAbs(a) == IF a.w < 0 THEN QSub(QInt(0, a.D), a) ELSE a

\* f"{a:,.0f}": the nearest integer, the even one of two equally near
QRound(a) ==
    IF 2 * a.f < a.D THEN a.w
    ELSE IF 2 * a.f > a.D THEN a.w + 1
    ELSE IF a.w % 2 = 0 THEN a.w ELSE a.w + 1

\* rec.get('buy_recommendation', {}): city is .get('city'), price .get('price', 0)
BuyRecommendationOf(rec) == IF rec.empty THEN [city |-> None, price |-> 0] ELSE rec.buy_recommendation

\* rec.get('sell_recommendation', {}): city is .get('city'), price .get('price', 0)
SellRecommendationOf(rec) == IF rec.empty THEN [city |-> None, price |-> 0] ELSE rec.sell_recommendation

\* f"T{int(tier[1:]) - 1}" if int(tier[1:]) - 1 >= 1 else tier
PrevTier(t) ==
    CASE t = "T4" -> "T3" [] t = "T5" -> "T4" [] t = "T6" -> "T5"
      [] t = "T7" -> "T6" [] t = "T8" -> "T7" [] t = "T9" -> "T8"

\* profit_data=None: no RefiningResult is passed
NoResult == [none |-> TRUE]

\* profit_data.profit_margin < 10
MarginBelow10(profit_data) ==
    LET m == profit_data.profit_margin
    IN QPositive(QSub(QTimes(m.den, 10), QTimes(m.num, 100)))

\* the plan dict the function starts from
EmptyPlan ==
    [is_profitable |-> FALSE, summary |-> [kind |-> ""], steps |-> << >>,
     financial_summary |-> EmptyDict, warnings |-> << >>, recommendations |-> << >>]

\* the steps with the production placed in the sell city of the output
PlanStepsProduceAtSellCity(raw_buy, prev_refined_buy, refined_sell, t, rt, quantity, profit_data, selected_city) ==
    LET refined_quantity == profit_data.refined_quantity
        prev_refined_needed == profit_data.prev_refined_needed
        prev_tier == PrevTier(t)
    IN <<[step |-> 1, action |-> "ACHETER",
          what |-> <<quantity, t, rt, "brut">>,
          where |-> raw_buy.city,
          price |-> raw_buy.price,
          total_cost |-> QRound(profit_data.raw_material_cost)],
         [step |-> 2, action |-> "ACHETER",
          what |-> <<prev_refined_needed, prev_tier, rt, "raffine">>,
          where |-> prev_refined_buy.city,
          price |-> prev_refined_buy.price,
          total_cost |-> profit_data.prev_refined_material_cost],
         [step |-> 3, action |-> "TRANSPORTER",
          what |-> <<"Tous materiaux", refined_sell.city>>,
          where |-> refined_sell.city,
          price |-> "Variable selon distance",
          total_cost |-> "A calculer"],
         [step |-> 4, action |-> "RAFFINER",
          what |-> <<quantity, t, prev_refined_needed, prev_tier, rt>>,
          where |-> refined_sell.city,
          price |-> "Cout focus + taxes",
          total_cost |-> refined_quantity],
         [step |-> 5, action |-> "TRANSPORTER",
          what |-> <<"Matieres raffinees", refined_sell.city>>,
          where |-> refined_sell.city,
          price |-> "Variable selon distance",
          total_cost |-> "A calculer"],
         [step |-> 6, action |-> "VENDRE",
          what |-> <<refined_quantity, t, rt, "raffine">>,
          where |-> refined_sell.city,
          price |-> refined_sell.price,
          total_cost |-> QRound(profit_data.total_revenue)]>>

\* plan['steps'] of a profitable plan
PlanSteps(raw_buy, prev_refined_buy, refined_sell, t, rt, quantity, profit_data, selected_city) ==
    LET refined_quantity == profit_data.refined_quantity
        prev_refined_needed == profit_data.prev_refined_needed
        prev_tier == PrevTier(t)
    IN <<[step |-> 1, action |-> "ACHETER",
          what |-> <<quantity, t, rt, "brut">>,
          where |-> raw_buy.city,
          price |-> raw_buy.price,
          total_cost |-> QRound(profit_data.raw_material_cost)],
         [step |-> 2, action |-> "ACHETER",
          what |-> <<prev_refined_needed, prev_tier, rt, "raffine">>,
          where |-> prev_refined_buy.city,
          price |-> prev_refined_buy.price,
          total_cost |-> profit_data.prev_refined_material_cost],
         [step |-> 3, action |-> "TRANSPORTER",
          what |-> <<"Tous materiaux", selected_city>>,
          where |-> selected_city,
          price |-> "Variable selon distance",
          total_cost |-> "A calculer"],
         [step |-> 4, action |-> "RAFFINER",
          what |-> <<quantity, t, prev_refined_needed, prev_tier, rt>>,
          where |-> selected_city,
          price |-> "Cout focus + taxes",
          total_cost |-> refined_quantity],
         [step |-> 5, action |-> "TRANSPORTER",
          what |-> <<"Matieres raffinees", refined_sell.city>>,
          where |-> refined_sell.city,
          price |-> "Variable selon distance",
          total_cost |-> "A calculer"],
         [step |-> 6, action |-> "VENDRE",
          what |-> <<refined_quantity, t, rt, "raffine">>,
          where |-> refined_sell.city,
          price |-> refined_sell.price,
          total_cost |-> QRound(profit_data.total_revenue)]>>

\* the double-transport warning given as soon as the producing city differs from
\* one of the two market cities
PlanWarningsEitherLeg(raw_buy_city, refined_sell_city, selected_city, profit_data) ==
    (IF raw_buy_city = refined_sell_city THEN <<"same city">> ELSE << >>)
    \o (IF MarginBelow10(profit_data) THEN <<"low margin">> ELSE << >>)
    \o (IF selected_city # raw_buy_city \/ selected_city # refined_sell_city
        THEN <<"double transport">> ELSE << >>)

\* the warnings of a profitable plan, in the order the code appends them
PlanWarnings(raw_buy_city, refined_sell_city, selected_city, profit_data) ==
    (IF raw_buy_city = refined_sell_city THEN <<"same city">> ELSE << >>)
    \o (IF MarginBelow10(profit_data) THEN <<"low margin">> ELSE << >>)
    \o (IF selected_city # raw_buy_city /\ selected_city # refined_sell_city
        THEN <<"double transport">> ELSE << >>)

\* a low margin withdraws the verdict instead of annotating it
create_refining_action_plan_warnings_decide(arbitrage_analysis, t, rt, quantity, profit_data, selected_city) ==
    IF profit_data # NoResult /\ QPositive(profit_data.net_profit) /\ ~MarginBelow10(profit_data)
    THEN Returned([EmptyPlan EXCEPT !.is_profitable = TRUE, !.summary = [kind |-> "PLAN RENTABLE"]])
    ELSE Returned(EmptyPlan)

\* profit_data is a RefiningResult or NoResult
create_refining_action_plan(arbitrage_analysis, t, rt, quantity, profit_data, selected_city) ==
    LET raw_buy == BuyRecommendationOf(arbitrage_analysis.raw_recommendations)
        prev_refined_buy == BuyRecommendationOf(arbitrage_analysis.prev_refined_recommendations)
        refined_sell == SellRecommendationOf(arbitrage_analysis.refined_recommendations)
    IN
    \* a RefiningResult is truthy and its net_profit is a number
    IF profit_data # NoResult
    THEN IF QPositive(profit_data.net_profit)
         THEN LET refined_quantity == profit_data.refined_quantity
                  prev_refined_needed == profit_data.prev_refined_needed
              IN Returned(
                 [is_profitable |-> TRUE,
                  summary |-> [kind |-> "PLAN RENTABLE",
                               profit |-> QRound(profit_data.net_profit),
                               margin |-> profit_data.profit_margin],
                  financial_summary |->
                      [empty |-> FALSE,
                       investment |-> profit_data.total_cost,
                       revenue |-> profit_data.total_revenue,
                       profit |-> profit_data.net_profit,
                       margin |-> profit_data.profit_margin,
                       raw_needed |-> quantity,
                       prev_refined_needed |-> prev_refined_needed,
                       refined_produced |-> refined_quantity,
                       premium_status |-> profit_data.premium,
                       focus_used |-> profit_data.use_focus],
                  steps |-> PlanSteps(raw_buy, prev_refined_buy, refined_sell, t, rt, quantity,
                                      profit_data, selected_city),
                  recommendations |->
                      <<[kind |-> "margin", margin |-> profit_data.profit_margin],
                        [kind |-> "focus", use_focus |-> profit_data.use_focus,
                         return_rate |-> profit_data.return_rate,
                         focus_cost |-> profit_data.focus_cost],
                        [kind |-> "premium", premium |-> profit_data.premium],
                        [kind |-> "route",
                         route |-> <<raw_buy.city, selected_city, refined_sell.city>>],
                        [kind |-> "watch prices"]>>,
                  warnings |-> PlanWarnings(raw_buy.city, refined_sell.city, selected_city,
                                            profit_data)])
         ELSE LET raw_per_refined == resource_requirements(t).raw
                  refined_quantity == IF raw_per_refined > 0 THEN quantity \div raw_per_refined
                                      ELSE 0
                  loss_per_unit == IF refined_quantity > 0
                                   THEN QDivInt(profit_data.net_profit, refined_quantity)
                                   ELSE QInt(0, 1)
              IN Returned(
                 [EmptyPlan EXCEPT
                     !.summary = [kind |-> "NON RENTABLE", loss |-> QRound(QAbs(loss_per_unit))],
                     !.warnings = <<"losses">>,
                     !.recommendations = <<[kind |-> "try another"]>>])
    ELSE Returned([EmptyPlan EXCEPT !.summary = [kind |-> "DONNEES INSUFFISANTES"],
                                    !.warnings = <<"check prices">>])

(***************************************************************************)
(* Calculator calls: Init draws the arguments of one call, the action of   *)
(* the operation applies it.                                               *)
(***************************************************************************)
MaxQuantity == 7

MaxCraftQuantity == 2

\* T9 is a tier the tables do not know
Tiers == {"T4", "T5", "T6", "T7", "T8", "T9"}

\* GEM is a resource type the tables do not know
ResourceTypes == {"ORE", "WOOD", "STONE", "ROCK", "GEM"}

\* Atlantis is a city the tables do not know
Cities == {"Thetford", "Fort Sterling", "Bridgewatch", "Caerleon", "Brecilien", "Atlantis"}

Specializations == {0, 50}

RefiningProfitCalls ==
    [op : {"calculate_refining_profit"}, tier : Tiers, resource_type : ResourceTypes, city : Cities,
     raw_price : {0, 7}, refined_price : {0, 30}, prev_refined_price : {0, 5},
     quantity : 0..MaxQuantity, specialization : Specializations, premium : BOOLEAN,
     use_focus : BOOLEAN]

ReturnRateCalls ==
    [op : {"calculate_return_rate"}, resource_type : ResourceTypes, city : Cities,
     use_focus : BOOLEAN, personal_island : BOOLEAN]

OptimalCityCalls == [op : {"get_optimal_refining_city"}, resource_type : ResourceTypes \cup {"HIDE", "FIBER"}]

\* T4_SHIELD is an item no recipe exists for
CraftItems == {"T4_SWORD", "T4_BAG", "T4_SHIELD"}

MaterialPriceDicts ==
    { << >>,
      [T4_METAL |-> 150, T3_METAL |-> 75],
      [T4_METAL |-> 150],
      [T4_CLOTH |-> 100, T4_LEATHER |-> 0] }

CraftingProfitCalls ==
    [op : {"calculate_crafting_profit"}, item_id : CraftItems,
     city : {"Fort Sterling", "Thetford", "Caerleon", "Atlantis"},
     material_prices : MaterialPriceDicts, item_sell_price : {0, 2000},
     quantity : 0..MaxCraftQuantity, specialization : {0, 50, 100}, premium : BOOLEAN,
     use_focus : BOOLEAN]

\* specialization levels run from 0 to 100
MaxSpecialization == 100

CraftingReturnRateCalls ==
    [op : {"crafting_calculate_return_rate"}, tier : Tiers, specialization : 0..MaxSpecialization,
     premium : BOOLEAN, use_focus : BOOLEAN]

\* refined prices up to 2: the interval [1, 10 * refined_price] is halved at
\* most eleven times
BreakEvenCalls ==
    [op : {"calculate_break_even_price"}, tier : {"T4", "T5"}, resource_type : {"ORE", "WOOD"},
     city : {"Thetford", "Brecilien", "Caerleon"}, refined_price : {0, 1, 2},
     prev_refined_price : {0, 1}, specialization : {0}, premium : {FALSE}, use_focus : BOOLEAN]

RefiningFocusCostCalls ==
    [op : {"calculate_focus_cost"}, tier : Tiers, quantity : 1..MaxQuantity,
     specialization : 0..MaxSpecialization, premium : BOOLEAN]

Calls == RefiningProfitCalls \cup ReturnRateCalls \cup OptimalCityCalls \cup CraftingProfitCalls \cup CraftingReturnRateCalls \cup BreakEvenCalls \cup RefiningFocusCostCalls

ArbIdle ==
    /\ price_data = << >>
    /\ tier = "T4"
    /\ resource_type = "ORE"
    /\ analysis = Pending

Init ==
    /\ cfg = DefaultConfig
    /\ \E args \in Calls : call = [args |-> args, outcome |-> Pending]
    /\ ArbIdle
    /\ CacheIdle

Apply(op, outcome) ==
    /\ call.outcome = Pending
    /\ call.args.op = op
    /\ call' = [call EXCEPT !.outcome = outcome]
    /\ UNCHANGED <<cfg, price_data, tier, resource_type, analysis>>
    /\ UNCHANGED cache_vars

CalculateRefiningProfit ==
    LET a == call.args
    IN Apply("calculate_refining_profit",
             calculate_refining_profit(a.tier, a.resource_type, a.city, a.raw_price, a.refined_price, a.quantity, a.specialization, a.premium, a.use_focus, a.prev_refined_price))

CalculateReturnRate ==
    LET a == call.args
    IN Apply("calculate_return_rate",
             Returned(calculate_return_rate(a.city, a.resource_type, a.use_focus, a.personal_island)))

CalculateFocusCost ==
    LET a == call.args
    IN Apply("calculate_focus_cost",
             Returned(calculate_focus_cost(a.tier, a.quantity, a.specialization, a.premium)))

GetOptimalRefiningCity ==
    LET a == call.args
    IN Apply("get_optimal_refining_city", Returned(get_optimal_refining_city(a.resource_type)))

CalculateCraftingProfit ==
    LET a == call.args
    IN Apply("calculate_crafting_profit",
             calculate_crafting_profit(a.item_id, a.city, a.material_prices, a.item_sell_price, a.quantity, a.specialization, a.premium, a.use_focus))

CraftingCalculateReturnRate ==
    LET a == call.args
    IN Apply("crafting_calculate_return_rate",
             Returned(crafting_calculate_return_rate(a.tier, a.specialization, a.premium, a.use_focus)))

CalculateBreakEvenPrice ==
    LET a == call.args
    IN Apply("calculate_break_even_price",
             Returned(calculate_break_even_price(a.tier, a.resource_type, a.city, a.refined_price, a.specialization, a.premium, a.use_focus, a.prev_refined_price)))

Next ==
    \/ CalculateRefiningProfit
    \/ CalculateReturnRate
    \/ GetOptimalRefiningCity
    \/ CalculateCraftingProfit
    \/ CraftingCalculateReturnRate
    \/ CalculateBreakEvenPrice
    \/ CalculateFocusCost

Spec == Init /\ [][Next]_vars

\* the call of operation op has returned or raised
Done(op) == call.args.op = op /\ call.outcome # Pending

(***************************************************************************)
(* City rankings: Init draws the player's exclusion settings and the       *)
(* arguments of one ranking call.                                          *)
(***************************************************************************)
ExclusionConfigs == {[DefaultConfig EXCEPT !.exclude_brecilien = b, !.exclude_caerleon = c] : b \in BOOLEAN, c \in BOOLEAN}

BestRefiningCityCalls ==
    [op : {"find_best_refining_city"}, tier : Tiers, resource_type : ResourceTypes,
     raw_price : {40, 50, 80}, refined_price : {60, 200}, prev_refined_price : {0, 50},
     specialization : {0}, premium : BOOLEAN, use_focus : BOOLEAN]

SwordPrices == [T4_METAL |-> 150, T3_METAL |-> 75]

AllCities(v) == [c \in Range(CraftingCities) |-> v]

MaterialPricesByCity ==
    { << >>,
      AllCities(SwordPrices),
      ("Caerleon" :> SwordPrices) @@ ("Fort Sterling" :> SwordPrices),
      ("Caerleon" :> SwordPrices) @@ ("Thetford" :> << >>) @@ ("Brecilien" :> [T4_METAL |-> 140]) }

ItemSellPricesByCity ==
    { << >>,
      AllCities(2000),
      ("Caerleon" :> 2000) @@ ("Fort Sterling" :> 1900) @@ ("Brecilien" :> 2000),
      ("Caerleon" :> 0) @@ ("Thetford" :> 2000) @@ ("Brecilien" :> 1900) }

BestCraftingCityCalls ==
    [op : {"find_best_crafting_city"}, item_id : {"T4_SWORD", "T4_SHIELD"},
     material_prices_by_city : MaterialPricesByCity,
     item_sell_prices_by_city : ItemSellPricesByCity,
     quantity : 1..MaxCraftQuantity, specialization : {0, 50}, premium : BOOLEAN,
     use_focus : BOOLEAN]

InitRank ==
    /\ cfg \in ExclusionConfigs
    /\ \E args \in BestRefiningCityCalls \cup BestCraftingCityCalls : call = [args |-> args, outcome |-> Pending]
    /\ ArbIdle
    /\ CacheIdle

FindBestRefiningCity ==
    LET a == call.args
    IN Apply("find_best_refining_city",
             find_best_refining_city(a.tier, a.resource_type, a.raw_price, a.refined_price, a.specialization, a.premium, a.use_focus, a.prev_refined_price))

FindBestCraftingCity ==
    LET a == call.args
    IN Apply("find_best_crafting_city",
             find_best_crafting_city(a.item_id, a.material_prices_by_city, a.item_sell_prices_by_city, a.quantity, a.specialization, a.premium, a.use_focus))

NextRank ==
    \/ FindBestRefiningCity
    \/ FindBestCraftingCity

SpecRank == InitRank /\ [][NextRank]_vars

(***************************************************************************)
(* Claims on the calculators                                               *)
(***************************************************************************)
\* C1: for every tier and every quantity smaller than one production batch
\* (quantity // rawPerOutput = 0), calculate_refining_profit returns a
\* zero-output result (refined_quantity = 0, net_profit = 0, profit_margin = 0)
\* and raises no error.
C1_DegenerateQuantityReturnsZeroResult ==
    (/\ Done("calculate_refining_profit")
     /\ call.args.quantity \div resource_requirements(call.args.tier).raw = 0)
    => /\ call.outcome.status = "returned"
       /\ call.outcome.value.refined_quantity = 0
       /\ QIsZero(call.outcome.value.net_profit)
       /\ QIsZero(call.outcome.value.profit_margin.num)

\* C2: for any tier, city, resource type or recipe identity, known to the
\* reference tables or not, calculate_refining_profit and
\* calculate_crafting_profit return a result object; no exception propagates.
C2_NoExceptionPropagates ==
    (Done("calculate_refining_profit") \/ Done("calculate_crafting_profit"))
    => call.outcome.status = "returned"

\* C3: STONE and ROCK are synonyms: calculate_return_rate and
\* calculate_refining_profit give the same result for STONE as for ROCK, and
\* get_optimal_refining_city returns the same city for both.
C3_StoneRockSynonyms ==
    LET a == call.args
    IN /\ (Done("calculate_return_rate") /\ a.resource_type = "STONE")
          => call.outcome = Returned(calculate_return_rate(a.city, "ROCK", a.use_focus, a.personal_island))
       /\ (Done("calculate_refining_profit") /\ a.resource_type = "STONE")
          => call.outcome = calculate_refining_profit(a.tier, "ROCK", a.city, a.raw_price, a.refined_price, a.quantity, a.specialization, a.premium, a.use_focus, a.prev_refined_price)
       /\ (Done("get_optimal_refining_city") /\ a.resource_type = "STONE")
          => call.outcome = Returned(get_optimal_refining_city("ROCK"))

\* C5: the city rankings returned by find_best_refining_city and
\* find_best_crafting_city contain only known, non-excluded cities, for every
\* exclusion setting of the player configuration.
C5_RankingsHoldNoExcludedCity ==
    (Done("find_best_refining_city") \/ Done("find_best_crafting_city"))
    => \A i \in 1..Len(call.outcome.value) :
          call.outcome.value[i].city \in Range(get_allowed_cities(cfg))

\* the position of city in a city table
TableIndex(table, city) == CHOOSE i \in 1..Len(table) : table[i] = city

\* C16: find_best_refining_city and find_best_crafting_city return the cities
\* in descending order of net profit, and cities with equal net profit keep the
\* order in which the city table lists them (refining: local_production_bonus,
\* crafting: tax_rates), each city at most once.
C16_RankingDescendingStable ==
    /\ Done("find_best_refining_city") =>
          LET v == call.outcome.value
          IN /\ call.outcome.status = "returned"
             /\ Len(v) = Len(RefiningCities)
             /\ \A i, j \in 1..Len(v) :
                   i < j =>
                       /\ v[i].city \in Range(RefiningCities) /\ v[j].city \in Range(RefiningCities)
                       /\ v[i].city # v[j].city
                       /\ ~QLess(v[i].profit, v[j].profit)
                       /\ ~QLess(v[j].profit, v[i].profit)
                          => TableIndex(RefiningCities, v[i].city) < TableIndex(RefiningCities, v[j].city)
    /\ Done("find_best_crafting_city") =>
          LET v == call.outcome.value
          IN /\ call.outcome.status = "returned"
             /\ \A i, j \in 1..Len(v) :
                   i < j =>
                       /\ v[i].city \in Range(CraftingCities) /\ v[j].city \in Range(CraftingCities)
                       /\ v[i].city # v[j].city
                       /\ v[i].result.net_profit >= v[j].result.net_profit
                       /\ v[i].result.net_profit = v[j].result.net_profit
                          => TableIndex(CraftingCities, v[i].city) < TableIndex(CraftingCities, v[j].city)

\* C16 witness: a refining ranking in which the first city is strictly better
\* than the second and two later cities tie
C16_Witness ==
    /\ Done("find_best_refining_city")
    /\ QLess(call.outcome.value[2].profit, call.outcome.value[1].profit)
    /\ \E i \in 2..(Len(call.outcome.value) - 1) :
          call.outcome.value[i].profit = call.outcome.value[i + 1].profit

\* C24: find_best_crafting_city ranks a city only when the call holds its sell
\* price and the price of every material of the recipe, each > 0: a city with
\* a price missing is skipped, not ranked with the price taken as 0.
C24_MissingPriceCitySkipped ==
    Done("find_best_crafting_city") =>
        LET a == call.args
            v == call.outcome.value
        IN /\ call.outcome.status = "returned"
           /\ \A i \in 1..Len(v) :
                 LET city == v[i].city
                 IN /\ city \in DOMAIN a.item_sell_prices_by_city
                    /\ a.item_sell_prices_by_city[city] > 0
                    /\ city \in DOMAIN a.material_prices_by_city
                    /\ \A k \in 1..Len(recipes[a.item_id].materials) :
                          LET material == recipes[a.item_id].materials[k].id
                          IN /\ material \in DOMAIN a.material_prices_by_city[city]
                             /\ a.material_prices_by_city[city][material] > 0

(***************************************************************************)
(* Arbitrage analysis, as analysis_modules/refining_analysis.py runs it:   *)
(* every change of the quotes, of the selected tier or resource type or of *)
(* the player settings re-runs analyze_opportunities on the current quotes.*)
(***************************************************************************)
MaxQuotes == 3

\* the cities quotes arrive for: the two a player can exclude, which are like
\* any other city while not excluded
QuoteCities == {"Caerleon", "Brecilien"}

Categories == {"raw", "prev_refined", "refined"}

Quote(buy_max, sell_min) == [buy_max |-> buy_max, sell_min |-> sell_min]

\* the quotes a caller passes; zero means no data.  The data collector passes
\* raw and prev_refined quotes with sell_min > 0 (buy_max may be 0) and refined
\* quotes with buy_max > 0 (sell_min may be 0).
Quotes(category) ==
    CASE category = "raw" -> {Quote(0, 50), Quote(40, 50), Quote(84, 80)}
      [] category = "prev_refined" -> {Quote(40, 50), Quote(70, 0)}
      [] category = "refined" -> {Quote(200, 0), Quote(200, 210), Quote(60, 80), Quote(0, 80)}

ArbTiers == {"T4", "T8"}

\* of AVAILABLE_RESOURCES
ArbResourceTypes == {"ORE", "ROCK", "HIDE"}

RECURSIVE QuoteCount(_)
QuoteCount(pd) == IF pd = << >> THEN 0 ELSE Cardinality(DOMAIN Head(pd).data) + QuoteCount(Tail(pd))

\* price_data with the quote of city for category set to q
WithQuote(pd, city, category, q) ==
    IF \E i \in 1..Len(pd) : pd[i].city = city
    THEN [i \in 1..Len(pd) |-> IF pd[i].city = city
                               THEN [pd[i] EXCEPT !.data = (category :> q) @@ pd[i].data]
                               ELSE pd[i]]
    ELSE Append(pd, [city |-> city, data |-> (category :> q)])

InitArb ==
    /\ cfg = DefaultConfig
    /\ \E args \in {[op |-> "none"]} : call = [args |-> args, outcome |-> Pending]
    /\ ArbIdle
    /\ CacheIdle

\* the analysis of the quotes pd under settings config for tier t and resource type rt
Analyze(pd, config, t, rt) ==
    /\ price_data' = pd
    /\ cfg' = config
    /\ tier' = t
    /\ resource_type' = rt
    /\ analysis' = Returned(analyze_opportunities(pd, config, t, rt))
    /\ UNCHANGED call
    /\ UNCHANGED cache_vars

SetQuote ==
    \E city \in QuoteCities, category \in Categories :
        \E q \in Quotes(category) :
            /\ QuoteCount(WithQuote(price_data, city, category, q)) <= MaxQuotes
            /\ Analyze(WithQuote(price_data, city, category, q), cfg, tier, resource_type)

ToggleExcludeBrecilien ==
    Analyze(price_data, [cfg EXCEPT !.exclude_brecilien = ~@], tier, resource_type)

ToggleExcludeCaerleon ==
    Analyze(price_data, [cfg EXCEPT !.exclude_caerleon = ~@], tier, resource_type)

ToggleUseFocus ==
    Analyze(price_data, [cfg EXCEPT !.use_focus = ~@], tier, resource_type)

SelectTier ==
    \E t \in ArbTiers : Analyze(price_data, cfg, t, resource_type)

SelectResourceType ==
    \E rt \in ArbResourceTypes : Analyze(price_data, cfg, tier, rt)

NextArb ==
    \/ SetQuote
    \/ ToggleExcludeBrecilien
    \/ ToggleExcludeCaerleon
    \/ ToggleUseFocus
    \/ SelectTier
    \/ SelectResourceType

SpecArb == InitArb /\ [][NextArb]_vars

(***************************************************************************)
(* Claims on the arbitrage analysis                                        *)
(***************************************************************************)
Analysed == analysis.status = "returned"

Allowed == Range(get_allowed_cities(cfg))

\* the entries of price_data of candidate (non-excluded) cities that quote category
Candidates(category) == {i \in 1..Len(price_data) : price_data[i].city \in Allowed /\ category \in DOMAIN price_data[i].data}

Recommendation(category) ==
    CASE category = "raw" -> analysis.value.raw_recommendations
      [] category = "prev_refined" -> analysis.value.prev_refined_recommendations
      [] category = "refined" -> analysis.value.refined_recommendations

Opportunities == IF analysis.value.refining_opportunities.empty THEN << >> ELSE analysis.value.refining_opportunities.best_opportunities

\* price_data without the cities the configuration excludes
WithoutExcluded == SelectSeq(price_data, LAMBDA e : ~(cfg.exclude_brecilien /\ e.city = "Brecilien") /\ ~(cfg.exclude_caerleon /\ e.city = "Caerleon"))

\* C4: with a configuration, no excluded city appears as buy city or sell city
\* of the raw, previous-tier or refined recommendation, nor as raw_city or
\* refined_city of a refining opportunity, and the quotes of excluded cities
\* influence no recommended price: the analysis is the analysis of the quotes
\* of the non-excluded cities alone.
C4_ExcludedCitiesFilteredFirst ==
    Analysed =>
        /\ \A category \in Categories :
              ~Recommendation(category).empty =>
                  /\ Recommendation(category).buy_recommendation.city \in Allowed \cup {None}
                  /\ Recommendation(category).sell_recommendation.city \in Allowed \cup {None}
        /\ \A i \in 1..Len(Opportunities) :
              Opportunities[i].raw_city \in Allowed /\ Opportunities[i].refined_city \in Allowed
        /\ analysis.value = analyze_opportunities(WithoutExcluded, cfg, tier, resource_type)

\* C4 witness: Caerleon is excluded and quotes the lowest raw price, and the raw
\* recommendation buys in Brecilien at the higher price
C4_Witness ==
    /\ Analysed
    /\ cfg.exclude_caerleon
    /\ \E i \in 1..Len(price_data) : price_data[i].city = "Caerleon" /\ "raw" \in DOMAIN price_data[i].data /\ price_data[i].data["raw"] = Quote(40, 50)
    /\ ~Recommendation("raw").empty
    /\ Recommendation("raw").buy_recommendation = [city |-> "Brecilien", price |-> 80]

Min(S) == CHOOSE x \in S : \A y \in S : x <= y

Max(S) == CHOOSE x \in S : \A y \in S : x >= y

\* C6: per category the buy city is the candidate city with the lowest positive
\* sell_min among all candidate cities quoting the category, the sell city the
\* one with the highest positive buy_max; a quote of 0 is never a best price.
C6_BestBuySellOverAllCandidates ==
    Analysed =>
        \A category \in Categories :
            LET sells == {price_data[i].data[category].sell_min : i \in Candidates(category)} \ {0}
                buys == {price_data[i].data[category].buy_max : i \in Candidates(category)} \ {0}
                rec == Recommendation(category)
            IN /\ sells # {} =>
                     /\ ~rec.empty
                     /\ rec.buy_recommendation.price = Min(sells)
                     /\ \E i \in Candidates(category) :
                           /\ price_data[i].city = rec.buy_recommendation.city
                           /\ price_data[i].data[category].sell_min = Min(sells)
               /\ buys # {} =>
                     /\ ~rec.empty
                     /\ rec.sell_recommendation.price = Max(buys)
                     /\ \E i \in Candidates(category) :
                           /\ price_data[i].city = rec.sell_recommendation.city
                           /\ price_data[i].data[category].buy_max = Max(buys)
               /\ ~rec.empty =>
                     /\ rec.buy_recommendation.city # None => rec.buy_recommendation.price > 0
                     /\ rec.sell_recommendation.city # None => rec.sell_recommendation.price > 0

\* the quote of city for category, None when the city has none
QuoteOf(city, category) ==
    IF \E i \in 1..Len(price_data) : price_data[i].city = city /\ category \in DOMAIN price_data[i].data
    THEN (CHOOSE e \in Range(price_data) : e.city = city).data[category]
    ELSE Quote(0, 0)

\* C7: with only two cities having raw prices {A: 50, B: 80} and only city B
\* having an output buy price of 200, the analysis recommends buying at A and
\* selling at B, with profit per unit 200 - 50 = 150.
C7_TwoCityScenario ==
    (/\ Analysed
     /\ ~cfg.exclude_caerleon /\ ~cfg.exclude_brecilien
     /\ QuoteOf("Caerleon", "raw").sell_min = 50
     /\ QuoteOf("Brecilien", "raw").sell_min = 80
     /\ QuoteOf("Brecilien", "refined").buy_max = 200
     /\ QuoteOf("Caerleon", "refined") = Quote(0, 0))
    => /\ ~Recommendation("raw").empty
       /\ Recommendation("raw").buy_recommendation = [city |-> "Caerleon", price |-> 50]
       /\ ~Recommendation("refined").empty
       /\ Recommendation("refined").sell_recommendation = [city |-> "Brecilien", price |-> 200]
       /\ Recommendation("refined").sell_recommendation.price - Recommendation("raw").buy_recommendation.price = 150

\* the price dict _find_best_buy_sell is given for category
PricesOf(category) == ExtractPrices(FilteredCities(price_data, cfg), category)

RefineCities(a) ==
    IF a.status # "returned" \/ a.value.refining_opportunities.empty THEN {}
    ELSE {a.value.refining_opportunities.best_opportunities[i].refine_city : i \in 1..Len(a.value.refining_opportunities.best_opportunities)}

\* C9: the production city of every refining opportunity is the city with the
\* single highest local production bonus for the resource type; it is the same
\* for all opportunities of one call, and it does not change when quotes (or
\* anything but the resource type) change.
C9_RefineCityIsBonusCity ==
    /\ [](\A c \in RefineCities(analysis) :
             /\ RefineCities(analysis) = {c}
             /\ (\E b \in Range(RefiningCities) : local_production_bonus(b, resource_type) > 0)
                => \A other \in Range(RefiningCities) \ {c} :
                      local_production_bonus(other, resource_type) < local_production_bonus(c, resource_type))
    /\ [][resource_type' = resource_type => Cardinality(RefineCities(analysis) \cup RefineCities(analysis')) <= 1]_vars

\* C9 witness: two refining opportunities for ORE, selling in different cities,
\* both produced in Thetford
C9_Witness ==
    /\ Analysed
    /\ resource_type = "ORE"
    /\ Len(Opportunities) = 2
    /\ Opportunities[1].refined_city # Opportunities[2].refined_city
    /\ RefineCities(analysis) = {"Thetford"}

\* C10: if no candidate city has any previous-tier intermediate price while raw
\* and output prices exist, the analysis does not abort: it returns a non-empty
\* refining_opportunities result together with the raw and output
\* recommendations.
C10_MissingPrevPriceStillAnalysed ==
    (/\ Analysed
     /\ Candidates("prev_refined") = {}
     /\ \E i \in Candidates("raw") : price_data[i].data["raw"].sell_min > 0
     /\ \E i \in Candidates("refined") : price_data[i].data["refined"].buy_max > 0)
    => /\ ~analysis.value.refining_opportunities.empty
       /\ ~Recommendation("raw").empty
       /\ ~Recommendation("refined").empty

PositiveSells(category) == {price_data[i].data[category].sell_min : i \in Candidates(category)} \ {0}

\* C29: when refining_opportunities lists a route, the first route is evaluated
\* with the lowest positive raw sell_min of the candidate cities, the lowest
\* positive previous-tier sell_min (0 if none), the city and price of the output
\* sell recommendation, in the bonus-optimal production city, for 100 units;
\* every listed route has estimated_profit > 0, the routes are in non-increasing
\* order of estimated_profit, and best_opportunities holds min(5,
\* total_opportunities) routes.
C29_FirstRouteUsesBestPrices ==
    (Analysed /\ ~analysis.value.refining_opportunities.empty /\ Len(Opportunities) > 0) =>
        LET first == Opportunities[1]
            total == analysis.value.refining_opportunities.total_opportunities
            prev_price == IF PositiveSells("prev_refined") = {} THEN 0 ELSE Min(PositiveSells("prev_refined"))
            sell == Recommendation("refined").sell_recommendation
        IN /\ PositiveSells("raw") # {}
           /\ first.raw_price = Min(PositiveSells("raw"))
           /\ ~Recommendation("refined").empty
           /\ first.refined_city = sell.city
           /\ first.refined_price = sell.price
           /\ first.refine_city = get_optimal_refining_city(resource_type)
           /\ first.estimated_profit
              = calculate_refining_profit(tier, resource_type, first.refine_city, first.raw_price,
                                          first.refined_price, 100,
                                          get_specialization_level(cfg, SpecKey(resource_type)),
                                          cfg.premium, cfg.use_focus, prev_price).value.net_profit
           /\ \A i \in 1..Len(Opportunities) : QPositive(Opportunities[i].estimated_profit)
           /\ \A i \in 1..Len(Opportunities) : \A j \in i..Len(Opportunities) :
                 ~QLess(Opportunities[i].estimated_profit, Opportunities[j].estimated_profit)
           /\ Len(Opportunities) = Min({5, total})

(***************************************************************************)
(* Claims on the return rates                                              *)
(***************************************************************************)
\* C12: the refining return rate is in [0, 1), and the crafting return rate is
\* min(baseReturnRate(tier) + specialization/100*0.30 + (0.35 with focus), 0.70)
\* and lies in [0, 0.70], for every tier and every specialization in 0..100.
C12_ReturnRatesBounded ==
    /\ Done("calculate_return_rate") =>
          /\ call.outcome.status = "returned"
          /\ 0 <= call.outcome.value.num
          /\ call.outcome.value.num < call.outcome.value.den
    /\ Done("crafting_calculate_return_rate") =>
          LET a == call.args
              sum == crafting_base_return_rate(a.tier) + a.specialization * 3 + (IF a.use_focus THEN 350 ELSE 0)
          IN /\ call.outcome.status = "returned"
             /\ call.outcome.value = Min({sum, 700})
             /\ 0 <= call.outcome.value
             /\ call.outcome.value <= 700

\* C12 witness: a crafting return rate that the cap cuts to 0.70 (T8 at
\* specialization 100 with focus) has been returned
C12_Witness ==
    /\ Done("crafting_calculate_return_rate")
    /\ call.args.tier = "T8" /\ call.args.specialization = 100 /\ call.args.use_focus
    /\ call.outcome.value = 700

\* a <= b for rates [num, den] with positive denominators
RateLeq(a, b) == a.num * b.den <= b.num * a.den

\* C13: both return rates are non-decreasing in specialization and in focus
\* usage with all else fixed, and the refining rate with focus is strictly
\* greater than the rate of the same call without focus.
C13_ReturnRatesMonotone ==
    /\ Done("calculate_return_rate") =>
          LET a == call.args
              with_focus == calculate_return_rate(a.city, a.resource_type, TRUE, a.personal_island)
              without_focus == calculate_return_rate(a.city, a.resource_type, FALSE, a.personal_island)
          IN /\ call.outcome.value = IF a.use_focus THEN with_focus ELSE without_focus
             /\ RateLeq(without_focus, with_focus)
             /\ ~RateLeq(with_focus, without_focus)
    /\ (Done("calculate_refining_profit") /\ call.outcome.status = "returned") =>
          LET a == call.args
              result(s, f) == calculate_refining_profit(a.tier, a.resource_type, a.city, a.raw_price, a.refined_price, a.quantity, s, a.premium, f, a.prev_refined_price)
          IN /\ \A s \in Specializations :
                   s >= a.specialization =>
                       /\ result(s, a.use_focus).status = "returned"
                       /\ RateLeq(call.outcome.value.return_rate, result(s, a.use_focus).value.return_rate)
             /\ ~a.use_focus =>
                   /\ RateLeq(call.outcome.value.return_rate, result(a.specialization, TRUE).value.return_rate)
                   /\ ~RateLeq(result(a.specialization, TRUE).value.return_rate, call.outcome.value.return_rate)
    /\ Done("crafting_calculate_return_rate") =>
          LET a == call.args
          IN /\ \A s \in a.specialization..MaxSpecialization :
                   call.outcome.value <= crafting_calculate_return_rate(a.tier, s, a.premium, a.use_focus)
             /\ call.outcome.value <= crafting_calculate_return_rate(a.tier, a.specialization, a.premium, TRUE)
             /\ crafting_calculate_return_rate(a.tier, a.specialization, a.premium, FALSE) <= call.outcome.value

\* C13 witness: the rate of refining ORE in Thetford with focus, 1.03/2.03,
\* has been returned (without focus it is 0.58/1.58)
C13_Witness ==
    /\ Done("calculate_return_rate")
    /\ call.args.use_focus /\ call.args.city = "Thetford" /\ call.args.resource_type = "ORE"
    /\ ~call.args.personal_island
    /\ call.outcome.value = [num |-> 103, den |-> 203]

(***************************************************************************)
(* Claims on the profit calculations                                       *)
(***************************************************************************)
\* C14: the profit margin of calculate_refining_profit and of
\* calculate_crafting_profit is a finite number for all non-negative prices:
\* its quotient never has a zero denominator (no division error, no NaN or
\* infinity), and when the denominator the code divides by is zero (total cost
\* for refining, total revenue for crafting) the margin is 0.
C14_ProfitMarginFinite ==
    /\ Done("calculate_refining_profit") =>
          /\ call.outcome # Raised("ZeroDivisionError")
          /\ call.outcome.status = "returned" =>
                LET r == call.outcome.value
                IN /\ ~QIsZero(r.profit_margin.den)
                   /\ QIsZero(r.total_cost) => QIsZero(r.profit_margin.num)
    /\ Done("calculate_crafting_profit") =>
          /\ call.outcome # Raised("ZeroDivisionError")
          /\ call.outcome.status = "returned" =>
                LET r == call.outcome.value
                IN /\ r.profit_margin.den # 0
                   /\ r.total_revenue = 0 => r.profit_margin.num = 0

\* C14 witness: a refining result with total cost zero (free inputs, a tier
\* without item value and so without tax) and margin 0 has been returned
C14_Witness ==
    /\ Done("calculate_refining_profit")
    /\ call.outcome.status = "returned"
    /\ QIsZero(call.outcome.value.total_cost)
    /\ QPositive(call.outcome.value.total_revenue)
    /\ QIsZero(call.outcome.value.profit_margin.num)

\* the net profit of refining 100 raw units bought at p / PriceScale, all other
\* arguments as in the break-even call under way
NetProfitAt(p) ==
    LET a == call.args
    IN calculate_refining_profit_at(a.tier, a.resource_type, a.city, p, PriceScale, a.refined_price, 100, a.specialization, a.premium, a.use_focus, a.prev_refined_price).value.net_profit

\* C15: the break-even search converges: at the price it returns the net
\* profit is within tolerance of 0 (0.01 per raw unit, 1 on the 100 units of the
\* calculation), a little below that price the net profit is positive and a
\* little above it negative (epsilon 1/64).
C15_BreakEvenConverges ==
    Done("calculate_break_even_price") =>
        LET b == call.outcome.value.num
            epsilon == PriceScale \div 64
            at_b == NetProfitAt(b)
        IN /\ call.outcome.status = "returned"
           /\ at_b.w \in {-1, 0} \/ (at_b.w = 1 /\ at_b.f = 0)
           /\ QPositive(NetProfitAt(b - epsilon))
           /\ NetProfitAt(b + epsilon).w < 0

\* C23: the search of calculate_break_even_price ends, and the price it
\* returns lies in the search interval [1, 10 * refined_price].
C23_BreakEvenInsideInterval ==
    Done("calculate_break_even_price") =>
        /\ call.outcome.status = "returned"
        /\ PriceScale <= call.outcome.value.num
        /\ call.outcome.value.num <= 10 * call.args.refined_price * PriceScale

\* C25: the refining focus cost of a batch is baseFocusCost(tier) * quantity *
\* (1 - specialization/100 * 0.5) * (0.5 with premium), truncated to an integer
\* and at least 1, and a higher specialization never costs more.
C25_FocusCostFormula ==
    Done("calculate_focus_cost") =>
        LET a == call.args
            base == CASE a.tier = "T4" -> 10 [] a.tier = "T5" -> 20 [] a.tier = "T6" -> 40
                      [] a.tier = "T7" -> 80 [] a.tier = "T8" -> 160 [] OTHER -> 10
            truncated == (base * a.quantity * (200 - a.specialization))
                         \div (IF a.premium THEN 400 ELSE 200)
        IN /\ call.outcome.status = "returned"
           /\ call.outcome.value >= 1
           /\ call.outcome.value = Max({1, truncated})
           /\ a.specialization > 0 =>
                 call.outcome.value <= calculate_focus_cost(a.tier, a.quantity, a.specialization - 1, a.premium)

(***************************************************************************)
(* Action plans: Init draws the arguments of one planner call, the         *)
(* analysis from analyze_opportunities and the production result from      *)
(* calculate_refining_profit.                                              *)
(***************************************************************************)
\* pd with the quote q of city for category, or pd when no city quotes it
PlanQuoteAt(pd, city, category, q) == IF city = None THEN pd ELSE WithQuote(pd, city, category, q)

\* quotes in which each category is quoted by one city or by none
PlanPriceData ==
    {PlanQuoteAt(PlanQuoteAt(PlanQuoteAt(<< >>, cr, "raw", Quote(40, 50)),
                             cp, "prev_refined", Quote(40, 50)),
                 cf, "refined", Quote(200, 210)) :
         cr \in QuoteCities \cup {None}, cp \in {"Caerleon", None}, cf \in QuoteCities \cup {None}}

PlanTiers == {"T4", "T5"}

\* the producing city is get_optimal_refining_city(resource_type) on the page;
\* Caerleon is a city that is the buy or sell city of a recommendation
PlanCities == {"Thetford", "Caerleon"}

PlanQuantities == {4, MaxQuantity}

\* the production results of a tier, quantity and city, and no result
ProfitData(t, quantity, city) ==
    {NoResult} \cup
    {calculate_refining_profit(t, "ORE", city, raw_price, refined_price, quantity, 0, FALSE,
                               use_focus, prev_refined_price).value :
         raw_price \in {0, 50}, refined_price \in {0, 80, 210}, prev_refined_price \in {0, 50},
         use_focus \in BOOLEAN}

\* quantity and profit_data are separate arguments: the production result may be
\* that of the plan's quantity or of another batch
PlanCalls ==
    UNION {[op : {"create_refining_action_plan"},
            arbitrage_analysis : {analyze_opportunities(pd, DefaultConfig, t, "ORE") : pd \in PlanPriceData},
            tier : {t}, resource_type : {"ORE"}, quantity : {quantity},
            profit_data : UNION {ProfitData(t, batch, city) : batch \in PlanQuantities},
            selected_city : {city}] :
               t \in PlanTiers, quantity \in PlanQuantities, city \in PlanCities}

InitPlan ==
    /\ cfg = DefaultConfig
    /\ \E args \in PlanCalls : call = [args |-> args, outcome |-> Pending]
    /\ ArbIdle
    /\ CacheIdle

CreateRefiningActionPlan ==
    LET a == call.args
    IN Apply("create_refining_action_plan",
             create_refining_action_plan(a.arbitrage_analysis, a.tier, a.resource_type, a.quantity, a.profit_data, a.selected_city))

NextPlan == CreateRefiningActionPlan

SpecPlan == InitPlan /\ [][NextPlan]_vars

(***************************************************************************)
(* Claims on the action plans                                              *)
(***************************************************************************)
\* the plan a finished planner call returned
Plan == call.outcome.value

\* C17: create_refining_action_plan marks the plan profitable exactly when a
\* production result is supplied and its net profit is > 0; whether a warning
\* is attached (same buy and sell city, low margin, double transport) does not
\* change the verdict.
C17_ProfitableIffPositiveNetProfit ==
    Done("create_refining_action_plan") =>
        /\ call.outcome.status = "returned"
        /\ Plan.is_profitable
           <=> (call.args.profit_data # NoResult /\ QPositive(call.args.profit_data.net_profit))

\* C17 witness: a profitable plan that carries all three warnings
C17_Witness ==
    /\ Done("create_refining_action_plan")
    /\ Plan.is_profitable
    /\ Plan.steps[1].where = "Caerleon"
    /\ Plan.warnings = <<"same city", "low margin", "double transport">>

\* the recommendations of the analysis a planner call was given
RawBuy == BuyRecommendationOf(call.args.arbitrage_analysis.raw_recommendations)

PrevRefinedBuy == BuyRecommendationOf(call.args.arbitrage_analysis.prev_refined_recommendations)

RefinedSell == SellRecommendationOf(call.args.arbitrage_analysis.refined_recommendations)

\* C18: a profitable plan holds exactly six steps, numbered 1 to 6 in order: buy
\* the raw resource in the buy city of the raw recommendation, buy the previous
\* tier in the buy city of its recommendation, transport to the producing city,
\* refine there, transport to the sell city of the output recommendation, sell
\* there.  A plan that is not profitable holds no step.
C18_SixOrderedSteps ==
    Done("create_refining_action_plan") =>
        IF Plan.is_profitable
        THEN /\ Len(Plan.steps) = 6
             /\ \A i \in 1..6 : Plan.steps[i].step = i
             /\ [i \in 1..6 |-> Plan.steps[i].action]
                = <<"ACHETER", "ACHETER", "TRANSPORTER", "RAFFINER", "TRANSPORTER", "VENDRE">>
             /\ [i \in 1..6 |-> Plan.steps[i].where]
                = <<RawBuy.city, PrevRefinedBuy.city, call.args.selected_city,
                    call.args.selected_city, RefinedSell.city, RefinedSell.city>>
        ELSE Plan.steps = << >>

\* C18 witness: a profitable plan that buys in Caerleon, refines in Thetford and
\* sells in Brecilien
C18_Witness ==
    /\ Done("create_refining_action_plan")
    /\ Plan.is_profitable
    /\ RawBuy.city = "Caerleon"
    /\ PrevRefinedBuy.city = "Caerleon"
    /\ call.args.selected_city = "Thetford"
    /\ RefinedSell.city = "Brecilien"

\* C19: when the analysis has no raw buy recommendation or no output sell
\* recommendation, the plan reports insufficient data (not profitable, no step,
\* the insufficient-data summary) whatever production result is supplied.
C19_MissingLegGivesInsufficientData ==
    (/\ Done("create_refining_action_plan")
     /\ RawBuy.city = None \/ RefinedSell.city = None)
    => /\ ~Plan.is_profitable
       /\ Plan.steps = << >>
       /\ Plan.summary.kind = "DONNEES INSUFFISANTES"

\* the warnings of the plan a finished planner call returned
Warned(w) == \E i \in 1..Len(Plan.warnings) : Plan.warnings[i] = w

\* C27: a profitable plan carries the no-geographic-arbitrage warning exactly
\* when the raw buy city equals the output sell city, the low-margin warning
\* exactly when the profit margin of the production result is below 10, the
\* double-transport warning exactly when the producing city differs from both
\* the raw buy city and the output sell city, each at most once and no other
\* warning.
C27_WarningsExactlyWhenDue ==
    (Done("create_refining_action_plan") /\ Plan.is_profitable) =>
        LET margin == call.args.profit_data.profit_margin
        IN /\ Warned("same city") <=> RawBuy.city = RefinedSell.city
           \* num/den * 100 < 10, den > 0
           /\ Warned("low margin") <=> QLess(QTimes(margin.num, 10), margin.den)
           /\ Warned("double transport")
              <=> (call.args.selected_city # RawBuy.city /\ call.args.selected_city # RefinedSell.city)
           /\ \A i, j \in 1..Len(Plan.warnings) :
                 /\ Plan.warnings[i] \in {"same city", "low margin", "double transport"}
                 /\ Plan.warnings[i] = Plan.warnings[j] => i = j

\* C27 witness: a profitable plan bought in one city, produced in a second and
\* sold in a third at a margin of 10 or more carries the double-transport
\* warning alone
C27_Witness ==
    /\ Done("create_refining_action_plan")
    /\ Plan.is_profitable
    /\ RawBuy.city # None /\ RefinedSell.city # None /\ RawBuy.city # RefinedSell.city
    /\ call.args.selected_city \notin {RawBuy.city, RefinedSell.city}
    /\ ~MarginBelow10(call.args.profit_data)
    /\ Plan.warnings = <<"double transport">>

FocusCostCalls ==
    [op : {"calculate_focus_cost"}, tier : {"T4", "T9"}, quantity : {MaxQuantity},
     specialization : {50}, premium : BOOLEAN]

CoreCalls ==
    {c \in RefiningProfitCalls :
        /\ c.tier = "T4" /\ c.resource_type = "ORE" /\ c.city = "Thetford"
        /\ c.raw_price = 7 /\ c.refined_price = 30 /\ c.prev_refined_price = 5
        /\ c.quantity \in {0, 4} /\ c.specialization = 0 /\ ~c.premium}
    \cup {c \in ReturnRateCalls :
             c.resource_type = "ORE" /\ c.city \in {"Thetford", "Caerleon"} /\ ~c.personal_island}
    \cup FocusCostCalls
    \cup {c \in CraftingProfitCalls :
             /\ c.item_id = "T4_SWORD" /\ c.city \in {"Thetford", "Atlantis"}
             /\ c.material_prices = SwordPrices /\ c.item_sell_price = 2000 /\ c.quantity = 1
             /\ c.specialization = 50 /\ ~c.premium}
    \cup {c \in BreakEvenCalls :
             /\ c.tier = "T4" /\ c.resource_type = "ORE" /\ c.city = "Thetford"
             /\ c.refined_price = 2}
    \cup {c \in BestRefiningCityCalls :
             /\ c.tier = "T4" /\ c.resource_type = "ORE" /\ c.raw_price = 50
             /\ c.refined_price = 200 /\ c.prev_refined_price = 50 /\ ~c.premium}
    \cup {c \in BestCraftingCityCalls :
             /\ c.item_id = "T4_SWORD" /\ c.material_prices_by_city = AllCities(SwordPrices)
             /\ c.item_sell_prices_by_city = AllCities(2000) /\ c.quantity = 1
             /\ c.specialization = 0 /\ ~c.premium}
    \cup {c \in PlanCalls :
             /\ c.tier = "T4" /\ c.quantity = 4 /\ c.selected_city = "Thetford"
             /\ c.arbitrage_analysis.refined_recommendations # EmptyDict
             /\ c.arbitrage_analysis.prev_refined_recommendations # EmptyDict
             /\ c.profit_data \in {NoResult,
                                   calculate_refining_profit("T4", "ORE", "Thetford", 50, 210, 4, 0,
                                                             FALSE, TRUE, 50).value}}

\* the session's quotes: none, or both cities quoting
CorePriceData == {pd \in PlanPriceData : Len(pd) # 1}

InitCore ==
    /\ cfg \in ExclusionConfigs
    /\ price_data \in CorePriceData
    /\ tier = "T4"
    /\ resource_type = "ORE"
    /\ analysis = Pending
    /\ \E args \in CoreCalls : call = [args |-> args, outcome |-> Pending]
    /\ CacheIdle

\* analyze_opportunities, filtering the caller's price_data in place
AnalyzeOpportunitiesFilteringInPlace ==
    /\ analysis' = Returned(analyze_opportunities(price_data, cfg, tier, resource_type))
    /\ price_data' = FilteredCities(price_data, cfg)
    /\ UNCHANGED <<cfg, call, tier, resource_type>>
    /\ UNCHANGED cache_vars

\* analyze_opportunities(price_data, tier, resource_type) on the session's quotes
AnalyzeOpportunities ==
    /\ analysis' = Returned(analyze_opportunities(price_data, cfg, tier, resource_type))
    /\ UNCHANGED <<cfg, call, price_data, tier, resource_type>>
    /\ UNCHANGED cache_vars

\* the caller makes its next call
IssueCall ==
    /\ call.outcome # Pending
    /\ \E args \in CoreCalls : call' = [args |-> args, outcome |-> Pending]
    /\ UNCHANGED <<cfg, price_data, tier, resource_type, analysis>>
    /\ UNCHANGED cache_vars

NextCore ==
    \/ AnalyzeOpportunities
    \/ CalculateReturnRate
    \/ CalculateFocusCost
    \/ CalculateRefiningProfit
    \/ CalculateCraftingProfit
    \/ FindBestRefiningCity
    \/ FindBestCraftingCity
    \/ CalculateBreakEvenPrice
    \/ CreateRefiningActionPlan
    \/ IssueCall

SpecCore == InitCore /\ [][NextCore]_vars

(***************************************************************************)
(* Claims on the session state                                             *)
(***************************************************************************)
\* what the call with arguments a returns when it is the only call made
Alone(a) ==
    CASE a.op = "calculate_return_rate" ->
            Returned(calculate_return_rate(a.city, a.resource_type, a.use_focus, a.personal_island))
      [] a.op = "calculate_focus_cost" ->
            Returned(calculate_focus_cost(a.tier, a.quantity, a.specialization, a.premium))
      [] a.op = "calculate_refining_profit" ->
            calculate_refining_profit(a.tier, a.resource_type, a.city, a.raw_price, a.refined_price,
                                      a.quantity, a.specialization, a.premium, a.use_focus,
                                      a.prev_refined_price)
      [] a.op = "calculate_crafting_profit" ->
            calculate_crafting_profit(a.item_id, a.city, a.material_prices, a.item_sell_price,
                                      a.quantity, a.specialization, a.premium, a.use_focus)
      [] a.op = "find_best_refining_city" ->
            find_best_refining_city(a.tier, a.resource_type, a.raw_price, a.refined_price,
                                    a.specialization, a.premium, a.use_focus, a.prev_refined_price)
      [] a.op = "find_best_crafting_city" ->
            find_best_crafting_city(a.item_id, a.material_prices_by_city,
                                    a.item_sell_prices_by_city, a.quantity, a.specialization,
                                    a.premium, a.use_focus)
      [] a.op = "calculate_break_even_price" ->
            Returned(calculate_break_even_price(a.tier, a.resource_type, a.city, a.refined_price,
                                                a.specialization, a.premium, a.use_focus,
                                                a.prev_refined_price))
      [] a.op = "create_refining_action_plan" ->
            create_refining_action_plan(a.arbitrage_analysis, a.tier, a.resource_type, a.quantity,
                                        a.profit_data, a.selected_city)

\* the quotes and the player configuration the session started with
SessionInputs == <<cfg, price_data, tier, resource_type>>

ReferenceReturnRate(city, rt, use_focus, personal_island) ==
    LET totalBonus == 18 + (IF personal_island THEN 0 ELSE local_production_bonus(city, rt))
                         + (IF use_focus THEN 45 ELSE 0)
    IN [num |-> totalBonus, den |-> 100 + totalBonus]

\* C21: calculate_return_rate returns exactly 1 - 1/(1 + totalBonus), totalBonus
\* = 0.18 + (0 on a personal island, else the production bonus of the city for
\* the resource type, 0 when the table has none) + (0.45 with focus); the rate
\* of calculate_refining_profit is that of its city, resource type and focus,
\* whatever the specialization and premium.
C21_ReturnRateFormula ==
    /\ Done("calculate_return_rate") =>
          LET a == call.args
          IN call.outcome = Returned(ReferenceReturnRate(a.city, a.resource_type, a.use_focus, a.personal_island))
    /\ (Done("calculate_refining_profit") /\ call.outcome.status = "returned") =>
          LET a == call.args
          IN call.outcome.value.return_rate = ReferenceReturnRate(a.city, a.resource_type, a.use_focus, FALSE)

\* the amount a in units of 1/unit, for an amount that is a whole number of them
InUnits(a, unit) == a.w * unit + a.f \div (a.D \div unit)

\* C22: for a call with quantity >= rawPerOutput the result holds
\* outputQuantity = floor(quantity / rawPerOutput), prevNeeded = outputQuantity
\* * prevPerOutput, inputCost = quantity*rawPrice + prevNeeded*prevPrice, taxCost
\* = outputQuantity * itemBaseValue * 0.1125 * cityTaxRate (the same for every
\* market price), totalRevenue = outputQuantity*outputPrice + (quantity*rawPrice
\* + prevNeeded*prevPrice) * returnRate, netProfit = totalRevenue - inputCost -
\* taxCost.
C22_RefiningProfitFormulas ==
    (Done("calculate_refining_profit") /\ call.args.quantity >= resource_requirements(call.args.tier).raw) =>
        LET a == call.args
            r == call.outcome.value
            D == r.net_profit.D
            outputQuantity == a.quantity \div resource_requirements(a.tier).raw
            prevNeeded == outputQuantity * resource_requirements(a.tier).refined_prev
            inputCost == a.quantity * a.raw_price + prevNeeded * a.prev_refined_price
            free == calculate_refining_profit(a.tier, a.resource_type, a.city, 0, 0, a.quantity,
                                              a.specialization, a.premium, a.use_focus, 0).value
        IN /\ call.outcome.status = "returned"
           /\ r.refined_quantity = outputQuantity
           /\ r.prev_refined_needed = prevNeeded
           /\ r.input_cost = QInt(inputCost, D)
           \* 0.1125 = 9/80 and the tax rate is in 1/200: 16000 * taxCost is
           \* outputQuantity * itemBaseValue * 9 * tax rate
           /\ r.tax_cost.f % (D \div 2000) = 0
           /\ 8 * InUnits(r.tax_cost, 2000) = outputQuantity * item_values_refined(a.tier) * 9 * tax_rates(a.city)
           /\ r.tax_cost = free.tax_cost
           /\ r.total_revenue = QAdd(QInt(outputQuantity * a.refined_price, D),
                                     QFrac(inputCost * r.return_rate.num, r.return_rate.den, D))
           /\ r.net_profit = QSub(QSub(r.total_revenue, r.input_cost), r.tax_cost)

\* C22 witness: a T5 batch with all three prices positive and a remainder of
\* raw resources (7 raw for 3 per output) in a taxed city has been computed
C22_Witness ==
    /\ Done("calculate_refining_profit")
    /\ call.outcome.status = "returned"
    /\ call.args.tier = "T5" /\ call.args.quantity = 7
    /\ call.args.raw_price > 0 /\ call.args.refined_price > 0 /\ call.args.prev_refined_price > 0
    /\ call.outcome.value.refined_quantity = 2
    /\ QPositive(call.outcome.value.tax_cost)

\* the categories a city grants its 15% crafting bonus for
GrantedCategories(city) ==
    CASE city = "Thetford" -> {"FIBER", "CLOTH"}
      [] city = "Fort Sterling" -> {"ORE", "METAL"}
      [] city = "Lymhurst" -> {"WOOD"}
      [] city = "Bridgewatch" -> {"HIDE", "LEATHER"}
      [] city = "Martlock" -> {"ROCK", "STONE"}
      [] OTHER -> {}

\* the call of the crafting scenario: one T4 sword in Fort Sterling
SwordScenario ==
    /\ call.args.op = "calculate_crafting_profit"
    /\ call.args.item_id = "T4_SWORD" /\ call.args.city = "Fort Sterling"
    /\ call.args.material_prices = [T4_METAL |-> 150, T3_METAL |-> 75]
    /\ call.args.item_sell_price = 2000 /\ call.args.quantity = 1
    /\ call.args.specialization = 50 /\ call.args.premium /\ call.args.use_focus

\* C26: for a known recipe calculate_crafting_profit returns itemsProduced =
\* quantity*(1+returnRate), totalRevenue = itemsProduced*sellPrice, tax =
\* totalRevenue*cityTaxRate, each material cost = baseAmount*(1-cityBonus)*
\* quantity*price with cityBonus 0.15 when the city grants a bonus for the
\* recipe's bonus category and 0 otherwise, netProfit = totalRevenue - material
\* costs - tax; the T4_SWORD scenario in Fort Sterling gives itemsProduced > 1
\* and a strictly positive profit margin.
C26_CraftingProfitFormulas ==
    (Done("calculate_crafting_profit") /\ call.args.item_id \in DOMAIN recipes) =>
        LET a == call.args
            r == call.outcome.value
            recipe == recipes[a.item_id]
            cityBonus == IF recipe.crafting_city_bonus \in GrantedCategories(a.city) THEN 15 ELSE 0
            cityTaxRate == IF a.city = "Caerleon" THEN 7
                           ELSE IF a.city \in {"Thetford", "Fort Sterling", "Lymhurst", "Bridgewatch", "Martlock", "Brecilien"} THEN 9
                           ELSE 10
        IN /\ call.outcome.status = "returned"
           /\ r.items_produced = a.quantity * (1000 + r.return_rate) * (CraftScale \div 1000)
           /\ r.total_revenue = (r.items_produced \div CraftScale) * a.item_sell_price * CraftScale
                                + (r.items_produced % CraftScale) * a.item_sell_price
           \* the tax rate is in 1/200 and revenue is a whole number of 1/1000
           /\ r.total_revenue % 200 = 0
           /\ r.tax_amount = (r.total_revenue \div 200) * cityTaxRate
           /\ Len(r.material_costs) = Len(recipe.materials)
           /\ \A i \in 1..Len(recipe.materials) :
                 LET price == IF recipe.materials[i].id \in DOMAIN a.material_prices
                              THEN a.material_prices[recipe.materials[i].id] ELSE 0
                 IN r.material_costs[i].cost
                        = recipe.materials[i].amount * (100 - cityBonus) * a.quantity * price * (CraftScale \div 100)
           /\ r.net_profit = r.total_revenue - SumCosts(r.material_costs, 1) - r.tax_amount
           /\ SwordScenario =>
                 /\ r.items_produced > CraftScale
                 /\ r.profit_margin.num > 0 /\ r.profit_margin.den > 0

\* C26 witness: the sword scenario has been computed, with the Fort Sterling
\* metal bonus applied, 1.65 items produced and a net profit of 601.5
C26_Witness ==
    /\ SwordScenario
    /\ call.outcome.status = "returned"
    /\ call.outcome.value.items_produced = 1650 * (CraftScale \div 1000)
    /\ call.outcome.value.net_profit = 6015 * (CraftScale \div 10)

(***************************************************************************)
(* The price-fetch cache: PerformanceOptimizer.memory_efficient_cache,     *)
(* src/src/performance_optimizer.py:20-70, 332-336, wrapped around         *)
(* AlbionMarketData.get_refining_prices by cached(ttl=300),                *)
(* src/src/data_collector.py:17-24, 112-113.  A cache key stands for one   *)
(* argument tuple of the wrapped function; a result is the price data as    *)
(* quoted when the function ran.                                           *)
(***************************************************************************)
\* self.max_cache_size is 1000 in the code, which compares len(self.cache) with
\* it and uses it for nothing else; the cache is run at MaxCacheSize entries
MaxCacheSize == 3

max_cache_size == MaxCacheSize

\* self.cache_ttl, in seconds
cache_ttl == 300

\* @cached(ttl=300) on get_refining_prices
refining_prices_ttl == 300

\* time.time() moves in steps of TimeStep seconds, up to MaxClock
TimeStep == 150

MaxClock == 450

\* distinct argument tuples: enough to fill the cache past max_cache_size + 1
CacheKeys == 1..(MaxCacheSize + 2)

\* the maps without the keys whose timestamp is older than cache_ttl
_clean_cache(entries, timestamps, current_time) ==
    LET keys_to_remove == {key \in DOMAIN timestamps : current_time - timestamps[key] > cache_ttl}
    IN [cache |-> [key \in DOMAIN entries \ keys_to_remove |-> entries[key]],
        cache_timestamps |-> [key \in DOMAIN timestamps \ keys_to_remove |-> timestamps[key]]]

\* the wrapper around func for one call: the maps afterwards, what the call
\* returns or raises and whether func ran; func_outcome is what func does if
\* it runs
memory_efficient_cache(ttl, entries, timestamps, cache_key, current_time, func_outcome) ==
    IF /\ cache_key \in DOMAIN entries
       /\ cache_key \in DOMAIN timestamps
       /\ current_time - timestamps[cache_key] < ttl
    THEN [cache |-> entries, cache_timestamps |-> timestamps,
          outcome |-> Returned(entries[cache_key]), executed |-> FALSE]
    ELSE LET cleaned == IF Cardinality(DOMAIN entries) > max_cache_size
                        THEN _clean_cache(entries, timestamps, current_time)
                        ELSE [cache |-> entries, cache_timestamps |-> timestamps]
         IN IF func_outcome.status = "raised"
            \* the exception leaves the wrapper before anything is stored
            THEN [cache |-> cleaned.cache, cache_timestamps |-> cleaned.cache_timestamps,
                  outcome |-> func_outcome, executed |-> TRUE]
            ELSE [cache |-> (cache_key :> func_outcome.value) @@ cleaned.cache,
                  cache_timestamps |-> (cache_key :> current_time) @@ cleaned.cache_timestamps,
                  outcome |-> func_outcome, executed |-> TRUE]

InitCache ==
    /\ cfg = DefaultConfig
    /\ \E args \in {[op |-> "none"]} : call = [args |-> args, outcome |-> Pending]
    /\ ArbIdle
    /\ CacheIdle

\* one call of the wrapped get_refining_prices: the request answers with the
\* prices of the moment, or the function raises (int(tier[1:]) on a bad tier)
GetRefiningPrices ==
    \E cache_key \in CacheKeys :
        \E func_outcome \in {Returned([fetched_at |-> clock]), Raised("ValueError")} :
            LET w == memory_efficient_cache(refining_prices_ttl, cache, cache_timestamps,
                                            cache_key, clock, func_outcome)
            IN /\ cache' = w.cache
               /\ cache_timestamps' = w.cache_timestamps
               /\ executed' = w.executed
               /\ call' = [args |-> [op |-> "get_refining_prices", cache_key |-> cache_key, at |-> clock],
                           outcome |-> w.outcome]
               /\ UNCHANGED <<cfg, price_data, tier, resource_type, analysis, clock>>

\* time passes between two calls
Tick ==
    /\ clock + TimeStep <= MaxClock
    /\ clock' = clock + TimeStep
    /\ UNCHANGED <<cfg, call, price_data, tier, resource_type, analysis, cache, cache_timestamps, executed>>

\* clear_cache(): self.cache.clear(); self.cache_timestamps.clear()
ClearCache ==
    /\ cache' = << >>
    /\ cache_timestamps' = << >>
    /\ UNCHANGED <<cfg, call, price_data, tier, resource_type, analysis, clock, executed>>

NextCache ==
    \/ GetRefiningPrices
    \/ Tick
    \/ ClearCache

SpecCache == InitCache /\ [][NextCache]_vars

(***************************************************************************)
(* Claims on the price-fetch cache                                         *)
(***************************************************************************)
\* a step in which a call of the wrapped function returns without running it
ReturnsStored == call' # call /\ ~executed'

\* C30: after any sequence of calls of the wrapped function the cache holds at
\* most max_cache_size + 1 entries, cache and cache_timestamps have the same
\* keys, and a call returns the stored result without running the function only
\* when that result is younger than the ttl.
C30_CacheBoundedAndFresh ==
    /\ [](Cardinality(DOMAIN cache) <= max_cache_size + 1)
    /\ [](DOMAIN cache = DOMAIN cache_timestamps)
    /\ [][ReturnsStored =>
            LET cache_key == call'.args.cache_key
            IN /\ cache_key \in DOMAIN cache
               /\ call'.outcome = Returned(cache[cache_key])
               /\ call'.args.at - cache_timestamps[cache_key] < refining_prices_ttl]_vars

====
